---- MODULE Spec2Model ----
(***************************************************************************)
(* Model of the fluxity simple document processor:                         *)
(*   - the ERP field validation engine (src/src/validation-service.ts)     *)
(*   - the Textract block-graph decode of the document processor           *)
(*     (src/unnamed/part_001, second copy of the file, lines 706..1564)    *)
(* Strings are sequences of one-character strings, so that toLowerCase,    *)
(* the regular expressions of cleanCompanyName, trim, includes and the     *)
(* Levenshtein distance are computed as the code computes them.            *)
(***************************************************************************)
EXTENDS Integers, Sequences, FiniteSets, TLC

VARIABLES
    extractedFields,   \* the record given to validation: field name -> value
    provider,          \* behaviour of the Supabase query per data type
    oracle,            \* per field: the reply the GPT-4 completion call gave
    mode,              \* how the per-field validations are scheduled
    documentContext,   \* the snapshot built by validateDocumentFields
    results,           \* the results record of validateDocumentFields
    vpc,               \* position of validateDocumentFields
    call,              \* per field: the validateField call in flight
    oracleCalls,       \* log of the calls made to selectBestMatchWithGPT
    validatedFields,   \* processDocument: the fields after the results are applied
    blocks,            \* result.Blocks of the Textract response
    dpc,               \* position of the block processing of extractText
    out,               \* the ExtractedData returned by extractText
    event,             \* handler: the Records of the SQS event
    hpc,               \* position of handler
    jobs,              \* per record: the callback of handler and processDocument
    response,          \* the value handler returns
    sim                \* a call of calculateSimilarity: arguments and result

valVars == <<extractedFields, provider, oracle, mode, documentContext,
             results, vpc, call, oracleCalls, validatedFields>>
decVars == <<blocks, dpc, out>>
procVars == <<event, hpc, jobs, response>>
simVars == <<sim>>
vars == <<extractedFields, provider, oracle, mode, documentContext,
          results, vpc, call, oracleCalls, validatedFields, blocks, dpc, out,
          event, hpc, jobs, response, sim>>

\* null and undefined of the source: values that no string equals (a string
\* is a sequence of one-character strings)
Null == <<"null">>
Absent == <<"undefined">>

(***************************************************************************)
(* Characters and strings                                                  *)
(***************************************************************************)
UpperChars == <<"A","B","C","D","E","F","G","H","I","J","K","L","M",
                "N","O","P","Q","R","S","T","U","V","W","X","Y","Z">>
LowerChars == <<"a","b","c","d","e","f","g","h","i","j","k","l","m",
                "n","o","p","q","r","s","t","u","v","w","x","y","z">>
DigitChars == {"0","1","2","3","4","5","6","7","8","9"}

\* /\w/ of the regular expressions
IsWordChar(c) ==
    \/ \E i \in 1..26 : UpperChars[i] = c \/ LowerChars[i] = c
    \/ c \in DigitChars
    \/ c = "_"

\* /\s/ of the regular expressions and of String.prototype.trim
IsSpace(c) == c \in {" ", "\t", "\n"}

\* the character class of the second replace of cleanCompanyName (the
\* backquote of the class cannot be written in a TLA+ string; no string of
\* the model contains one)
PunctChars == {".", ",", "/", "#", "!", "$", "%", "^", "&", "*", ";", ":",
               "{", "}", "=", "-", "_", "~", "(", ")"}

LowerChar(c) ==
    IF \E i \in 1..26 : UpperChars[i] = c
    THEN LowerChars[CHOOSE i \in 1..26 : UpperChars[i] = c]
    ELSE c

toLowerCase(s) == [i \in 1..Len(s) |-> LowerChar(s[i])]

RECURSIVE TrimLeft(_)
TrimLeft(s) ==
    IF s # <<>> /\ IsSpace(Head(s)) THEN TrimLeft(Tail(s)) ELSE s

RECURSIVE TrimRight(_)
TrimRight(s) ==
    IF s # <<>> /\ IsSpace(s[Len(s)])
    THEN TrimRight(SubSeq(s, 1, Len(s) - 1))
    ELSE s

trim(s) == TrimRight(TrimLeft(s))

\* String.prototype.includes: sub occurs in s as a contiguous substring
includes(s, sub) ==
    \E i \in 0..(Len(s) - Len(sub)) : SubSeq(s, i + 1, i + Len(sub)) = sub

Max(a, b) == IF a >= b THEN a ELSE b
Min(a, b) == IF a <= b THEN a ELSE b

(***************************************************************************)
(* cleanCompanyName                                                        *)
(***************************************************************************)
\* the alternation of the first regular expression
SuffixWords == {
    <<"i","n","c">>,
    <<"i","n","c","o","r","p","o","r","a","t","e","d">>,
    <<"c","o","r","p">>,
    <<"c","o","r","p","o","r","a","t","i","o","n">>,
    <<"l","l","c">>,
    <<"l","t","d">>,
    <<"l","i","m","i","t","e","d">>,
    <<"c","o">>,
    <<"c","o","m","p","a","n","y">>,
    <<"p","l","c">>,
    <<"g","m","b","h">>,
    <<"s","a">>,
    <<"a","g">>,
    <<"b","v">>,
    <<"n","v">> }

\* last position of the maximal run of word characters that starts at i
RECURSIVE WordEnd(_, _)
WordEnd(s, i) ==
    IF i < Len(s) /\ IsWordChar(s[i + 1]) THEN WordEnd(s, i + 1) ELSE i

\* first replace of cleanCompanyName, /\b(inc|...|nv)\b/gi: a match starts
\* and ends at a word boundary, so it is a whole maximal run of word
\* characters
RECURSIVE StripSuffixWords(_, _)
StripSuffixWords(s, i) ==
    IF i > Len(s) THEN <<>>
    ELSE IF IsWordChar(s[i])
         THEN LET j == WordEnd(s, i)
                  w == SubSeq(s, i, j)
              IN  IF toLowerCase(w) \in SuffixWords
                  THEN StripSuffixWords(s, j + 1)
                  ELSE w \o StripSuffixWords(s, j + 1)
         ELSE <<s[i]>> \o StripSuffixWords(s, i + 1)

\* second replace of cleanCompanyName: the punctuation class
StripPunctuation(s) == SelectSeq(s, LAMBDA c : c \notin PunctChars)

\* third replace of cleanCompanyName: /\s+/g becomes one space
RECURSIVE CollapseSpaces(_)
CollapseSpaces(s) ==
    IF s = <<>> THEN <<>>
    ELSE IF IsSpace(Head(s))
         THEN <<" ">> \o CollapseSpaces(TrimLeft(s))
         ELSE <<Head(s)>> \o CollapseSpaces(Tail(s))

\* a company name that keeps its suffix words
cleanCompanyNameKeepingSuffix(name) ==
    trim(CollapseSpaces(StripPunctuation(name)))

cleanCompanyName(name) ==
    trim(CollapseSpaces(StripPunctuation(StripSuffixWords(name, 1))))

(***************************************************************************)
(* levenshteinDistance: the dp table, filled row by row                    *)
(***************************************************************************)
Min3(a, b, c) == Min(a, Min(b, c))

\* row i of dp: cur holds dp[i][0..Len(cur)-1], prev is row i-1
RECURSIVE FillRow(_, _, _, _)
FillRow(prev, cur, ch, s2) ==
    IF Len(cur) = Len(s2) + 1 THEN cur
    ELSE LET j == Len(cur)
             v == IF ch = s2[j]
                  THEN prev[j]
                  ELSE 1 + Min3(prev[j + 1], cur[j], prev[j])
         IN  FillRow(prev, Append(cur, v), ch, s2)

RECURSIVE LevRows(_, _, _, _)
LevRows(s1, s2, i, prev) ==
    IF i > Len(s1) THEN prev[Len(s2) + 1]
    ELSE LevRows(s1, s2, i + 1, FillRow(prev, <<i>>, s1[i], s2))

levenshteinDistance(s1, s2) ==
    LevRows(s1, s2, 1, [j \in 1..(Len(s2) + 1) |-> j - 1])

(***************************************************************************)
(* calculateSimilarity.  The score is the exact rational num/den of the    *)
(* floating-point value the code computes; Math.round is RoundScore.       *)
(***************************************************************************)
Ratio(n, d) == [num |-> n, den |-> d]

calculateSimilarity(s1, s2) ==
    LET cleanS1 == cleanCompanyName(s1)
        cleanS2 == cleanCompanyName(s2)
        maxLen == Max(Len(s1), Len(s2))
        distance == levenshteinDistance(cleanS1, cleanS2)
    IN  IF cleanS1 = cleanS2 THEN Ratio(95, 1)
        ELSE IF maxLen = 0 THEN Ratio(100, 1)
        ELSE IF includes(s1, s2) \/ includes(s2, s1)
             THEN Ratio(Min((maxLen - distance) * 100 + 15 * maxLen,
                            95 * maxLen), maxLen)
             ELSE Ratio((maxLen - distance) * 100, maxLen)

\* Math.round(score): floor(score + 1/2), scores are never negative
RoundScore(r) == (2 * r.num + r.den) \div (2 * r.den)

\* b[1] - a[1] > 0 of the sort comparator: b is strictly better than a
ScoreLess(a, b) == a.num * b.den < b.num * a.den

(***************************************************************************)
(* simpleFuzzyMatch                                                        *)
(***************************************************************************)
\* Array.prototype.sort with the comparator b[1] - a[1] (a stable sort):
\* x goes before the first entry that is not strictly better than x
RECURSIVE InsertByScore(_, _)
InsertByScore(x, sorted) ==
    IF sorted = <<>> THEN <<x>>
    ELSE IF ScoreLess(x.score, Head(sorted).score)
         THEN <<Head(sorted)>> \o InsertByScore(x, Tail(sorted))
         ELSE <<x>> \o sorted

RECURSIVE SortByScore(_)
SortByScore(seq) ==
    IF seq = <<>> THEN <<>>
    ELSE InsertByScore(Head(seq), SortByScore(Tail(seq)))

\* Array.prototype.slice(from, to) with 0-based from, exclusive to
slice(seq, from, to) == SubSeq(seq, from + 1, Min(to, Len(seq)))

simpleFuzzyMatch(query, choices, limit) ==
    LET scored == [i \in 1..Len(choices) |->
                     [name |-> choices[i],
                      score |-> calculateSimilarity(toLowerCase(query),
                                                    toLowerCase(choices[i]))]]
    IN  slice(SortByScore(scored), 0, limit)

(***************************************************************************)
(* validateField                                                           *)
(***************************************************************************)
LIST_MATCH_FIELDS ==
    <<"company_code", "transaction_type", "invoicing_party", "document_type",
      "gl_account", "debit_credit", "tax_code", "tax_jurisdiction",
      "assignment", "cost_center", "profit_center", "order_number",
      "wbs_element">>

dataTypeMap(fieldName) ==
    CASE fieldName = "invoicing_party" -> "vendor"
      [] fieldName = "supplier_name" -> "vendor"
      [] fieldName = "vendor_name" -> "vendor"
      [] OTHER -> fieldName

\* !x of the source for a value that is null, undefined or a string
Falsy(x) == x = Null \/ x = Absent \/ x = <<>>

\* x || y of the source, for a string x and for a number x
OrElse(x, y) == IF Falsy(x) THEN y ELSE x
NumOrElse(x, y) == IF x = 0 THEN y ELSE x

\* undefined or null where the source expects an object
NoRecord == [undefined |-> TRUE]

ValidationResult(fieldName, value, code, name, confidence, status, alts) ==
    [field |-> fieldName, extracted_value |-> value, matched_code |-> code,
     matched_name |-> name, confidence |-> confidence, status |-> status,
     alternatives |-> alts]

\* exactMatch comparing without toLowerCase
exactMatchCaseSensitive(masterData, extractedValue) ==
    LET hits == {i \in 1..Len(masterData) :
                   \/ masterData[i].code = extractedValue
                   \/ masterData[i].name = extractedValue}
    IN  IF hits = {} THEN NoRecord
        ELSE masterData[CHOOSE i \in hits : \A k \in hits : i <= k]

\* masterData.find(item => code or name equals the value, ignoring case)
exactMatch(masterData, extractedValue) ==
    LET hits == {i \in 1..Len(masterData) :
                   \/ toLowerCase(masterData[i].code) = toLowerCase(extractedValue)
                   \/ toLowerCase(masterData[i].name) = toLowerCase(extractedValue)}
    IN  IF hits = {} THEN NoRecord
        ELSE masterData[CHOOSE i \in hits : \A k \in hits : i <= k]

\* masterData.find(i => i.name === name)!
findByName(masterData, name) ==
    masterData[CHOOSE i \in 1..Len(masterData) :
                 /\ masterData[i].name = name
                 /\ \A k \in 1..(i - 1) : masterData[k].name # name]

\* the alternatives array built from the fuzzy matches
alternativesOf(masterData, extractedValue) ==
    LET choices == [i \in 1..Len(masterData) |-> masterData[i].name]
        fuzzyMatches == simpleFuzzyMatch(extractedValue, choices, 20)
    IN  [k \in 1..Len(fuzzyMatches) |->
           LET item == findByName(masterData, fuzzyMatches[k].name)
           IN  [code |-> item.code, name |-> item.name,
                score |-> RoundScore(fuzzyMatches[k].score)]]

\* AutoAccepts with the test >= 85
AutoAcceptsFrom85(alternatives) ==
    Len(alternatives) > 0 /\ alternatives[1].score >= 85

\* AcceptedStatus with the test >= 90
AcceptedStatusFrom90(score) ==
    IF score >= 90 THEN "fuzzy_high" ELSE "fuzzy_medium"

\* the auto-accept test and the status of an auto-accepted result
\* Escalates with the test >= 60
EscalatesFrom60(alternatives) ==
    Len(alternatives) > 0 /\ alternatives[1].score >= 60

AutoAccepts(alternatives) == Len(alternatives) > 0 /\ alternatives[1].score > 85

AcceptedStatus(score) == IF score > 90 THEN "fuzzy_high" ELSE "fuzzy_medium"

\* the escalation test, reached only when AutoAccepts is false
Escalates(alternatives) == Len(alternatives) > 0 /\ alternatives[1].score > 60

\* the alternatives of an auto-accepted result
AcceptedAlternatives(alternatives) == slice(alternatives, 1, 6)

autoAccepted(fieldName, value, alternatives) ==
    ValidationResult(fieldName, value, alternatives[1].code,
                     alternatives[1].name, alternatives[1].score,
                     AcceptedStatus(alternatives[1].score),
                     AcceptedAlternatives(alternatives))

\* noGoodMatch without the best-effort candidate
noGoodMatchWithoutCandidate(fieldName, value, alternatives) ==
    ValidationResult(fieldName, value, Null, Null, 0, "no_match",
                     slice(alternatives, 0, 5))

\* noGoodMatch that attaches every ranked candidate
noGoodMatchAllAlternatives(fieldName, value, alternatives) ==
    ValidationResult(fieldName, value,
        IF alternatives = <<>> THEN Null ELSE alternatives[1].code,
        IF alternatives = <<>> THEN Null ELSE alternatives[1].name,
        IF alternatives = <<>> THEN 0 ELSE alternatives[1].score,
        "no_match", alternatives)

\* the final return of validateField
noGoodMatch(fieldName, value, alternatives) ==
    ValidationResult(fieldName, value,
        IF alternatives = <<>> THEN Null ELSE OrElse(alternatives[1].code, Null),
        IF alternatives = <<>> THEN Null ELSE OrElse(alternatives[1].name, Null),
        IF alternatives = <<>> THEN 0 ELSE NumOrElse(alternatives[1].score, 0),
        "no_match", slice(alternatives, 0, 5))

\* emptyResult that reports the extracted value as the match
emptyResultEchoingValue(fieldName, value) ==
    ValidationResult(fieldName, value, value, value, 0, "no_match", <<>>)

emptyResult(fieldName, value) ==
    ValidationResult(fieldName, value, Null, Null, 0, "no_match", <<>>)

\* the result built from a selection of the oracle
gptSelected(fieldName, value, alternatives, gptSelection) ==
    ValidationResult(fieldName, value, gptSelection.code, gptSelection.name,
        gptSelection.confidence,
        IF gptSelection.confidence > 75 THEN "fuzzy_medium" ELSE "fuzzy_low",
        slice(SelectSeq(alternatives, LAMBDA a : a.code # gptSelection.code),
              0, 5))

\* selectBestMatchWithGPT after the completion call: reply is the outcome of
\* the call and of JSON.parse (a JSON object may lack either key); every
\* exception is caught and gives null
selectBestMatchWithGPT(candidates, reply) ==
    IF reply.kind = "throw" THEN NoRecord
    ELSE IF /\ "selected_index" \in DOMAIN reply
            /\ reply.selected_index > 0
            /\ reply.selected_index <= Len(candidates)
         THEN LET selected == candidates[reply.selected_index]
              IN  [code |-> selected.code, name |-> selected.name,
                   confidence |->
                       IF "confidence" \in DOMAIN reply
                       THEN NumOrElse(reply.confidence, selected.score)
                       ELSE selected.score]
         ELSE NoRecord

\* fetchMasterData after the query resolved: an error gives [], absent data
\* gives []
fetchMasterData(outcome) ==
    IF outcome.kind = "error" THEN <<>>
    ELSE IF outcome.kind = "nodata" THEN <<>>
    ELSE outcome.data

(***************************************************************************)
(* Inputs of the model                                                     *)
(***************************************************************************)
MaxItems == 2

\* the length of the long list of vendor rows
LongLen == 11

\* the length of a list of more vendor rows than simpleFuzzyMatch keeps
FullLen == 21

AcmeFoods == <<"A","c","m","e"," ","F","o","o","d","s">>
v200 == <<"v","2","0","0">>
ACME_FOODS == <<"A","C","M","E"," ","F","O","O","D","S">>
AcmeGoods == <<"A","c","m","e"," ","G","o","o","d","s">>
AcmeFloods == <<"A","c","m","e"," ","F","l","o","o","d","s">>
AcmeGoadsCo == <<"A","c","m","e"," ","G","o","a","d","s"," ","C","o">>
AcmeGoadsInc == <<"A","c","m","e"," ","G","o","a","d","s"," ","I","n","c">>
AcmeGoadsCompany ==
    <<"A","c","m","e"," ","G","o","a","d","s"," ","C","o","m","p","a","n","y">>
AcmeBeers == <<"A","c","m","e"," ","B","e","e","r","s">>
AcmeGoals == <<"A","c","m","e"," ","G","o","a","l","s">>
SalesDepartment ==
    <<"S","a","l","e","s"," ","D","e","p","a","r","t","m","e","n","t">>
SalesDept == <<"S","a","l","e","s"," ","D","e","p","t">>
JacksFoods == <<"J","a","c","k","s"," ","F","o","o","d","s">>
JacksFoodsInc ==
    <<"J","a","c","k","'","s"," ","F","o","o","d","s"," ","I","n","c">>
JACK0001 == <<"J","A","C","K","0","0","0","1">>
AcmeGoads == <<"A","c","m","e"," ","G","o","a","d","s">>
AcmeFoCompanyInc ==
    <<"A","c","m","e"," ","F","o"," ","C","o","m","p","a","n","y"," ",
      "I","n","c",".">>
Letters == <<"a","b","c","d","e","f","g","h","i","j","k","l","m",
             "n","o","p","q","r","s","t","u","v","w","x","y","z">>

MasterDataItem(code, name) == [code |-> code, name |-> name]

\* rows of erp_master_data of data type vendor; against the value
\* "Acme Foods" the names score exact, 90, 91, 85 (11/13), 86, 89, 60, 70,
\* 90, 75 and 85 (17/20); against "Jacks Foods" the row JACK0001 scores 94,
\* the others 36 to 73
VendorItems == {
    MasterDataItem(<<"V","1","0","0">>, ACME_FOODS),
    MasterDataItem(<<"V","2","0","0">>, AcmeGoods),
    MasterDataItem(<<"V","3","0","0">>, AcmeFloods),
    MasterDataItem(<<"V","4","0","0">>, AcmeGoadsCo),
    MasterDataItem(<<"V","5","0","0">>, AcmeGoadsInc),
    MasterDataItem(<<"V","6","0","0">>, AcmeGoadsCompany),
    MasterDataItem(<<"V","7","0","0">>, AcmeBeers),
    MasterDataItem(<<"V","8","0","0">>, AcmeGoals),
    MasterDataItem(<<"V","9","0","0">>, AcmeGoods),
    MasterDataItem(JACK0001, JacksFoodsInc),
    MasterDataItem(<<"V","9","5","0">>, AcmeFoCompanyInc) }

\* a list of more rows than the oracle is shown: against "Acme Foods" the
\* rows at even positions score 73, the rows at odd positions 64
LongVendorList ==
    [i \in 1..LongLen |->
        MasterDataItem(<<"L", Letters[i]>>,
                       (IF i % 2 = 0 THEN AcmeGoads ELSE AcmeGoals)
                           \o <<Letters[i]>>)]

\* a list of more rows than the fuzzy pass keeps, with the same names
FullVendorList ==
    [i \in 1..FullLen |->
        MasterDataItem(<<"F", Letters[i]>>,
                       (IF i % 2 = 0 THEN AcmeGoads ELSE AcmeGoals)
                           \o <<Letters[i]>>)]

CostCenterItems == {
    MasterDataItem(<<"C","C","1","0","0">>, SalesDepartment) }

\* the lists a query can return: rows are unique by code
ListsOf(items) ==
    UNION { {l \in [1..n -> items] : \A i, j \in 1..n : i # j => l[i] # l[j]}
            : n \in 0..MaxItems }

ExtractedValues == {Null, Absent, <<>>, AcmeFoods, v200, JacksFoods}

ModelFields == {"invoicing_party", "cost_center"}

QueryOutcomes(items) ==
    {[kind |-> "data", data |-> l] : l \in ListsOf(items)}
    \cup {[kind |-> "nodata"], [kind |-> "error"], [kind |-> "throw"]}

\* outcomes of the completion call and JSON.parse
OracleReplies ==
    {[kind |-> "throw"], [kind |-> "json"],
     [kind |-> "json", selected_index |-> 0, confidence |-> 90]}
    \cup {[kind |-> "json", selected_index |-> i] : i \in 1..3}
    \cup {[kind |-> "json", selected_index |-> i, confidence |-> c] :
            i \in 1..3, c \in {0, 75, 76}}

(***************************************************************************)
(* One validateField call: its steps between the awaits                    *)
(***************************************************************************)
IdleCall == [pc |-> "idle", value |-> Absent, context |-> NoRecord,
             alternatives |-> <<>>, result |-> NoRecord]

Returned(c, r) == [c EXCEPT !.pc = "returned", !.result = r]

\* StartCall without the test of the extracted value
StartCallAlwaysFetching(fieldName, extractedValue, context) ==
    [IdleCall EXCEPT !.value = extractedValue, !.context = context,
                     !.pc = "fetching"]

\* validateField up to the await of fetchMasterData
StartCall(fieldName, extractedValue, context) ==
    LET c == [IdleCall EXCEPT !.value = extractedValue, !.context = context]
    IN  IF Falsy(extractedValue)
        THEN Returned(c, emptyResult(fieldName, <<>>))
        ELSE [c EXCEPT !.pc = "fetching"]

\* validateField from the resolved fetchMasterData to its return or to the
\* await of selectBestMatchWithGPT
AfterFetch(c, fieldName, masterData) ==
    LET exact == exactMatch(masterData, c.value)
        alts == alternativesOf(masterData, c.value)
    IN  IF Len(masterData) = 0
        THEN Returned(c, emptyResult(fieldName, c.value))
        ELSE IF exact # NoRecord
        THEN Returned(c, ValidationResult(fieldName, c.value, exact.code,
                                          exact.name, 100, "exact", <<>>))
        ELSE IF AutoAccepts(alts)
        THEN Returned([c EXCEPT !.alternatives = alts],
                      autoAccepted(fieldName, c.value, alts))
        ELSE IF Escalates(alts)
        THEN [c EXCEPT !.pc = "asking", !.alternatives = alts]
        ELSE Returned([c EXCEPT !.alternatives = alts],
                      noGoodMatch(fieldName, c.value, alts))

\* validateField from the resolved selectBestMatchWithGPT to its return
AfterOracle(c, fieldName, gptSelection) ==
    IF gptSelection # NoRecord
    THEN Returned(c, gptSelected(fieldName, c.value, c.alternatives,
                                 gptSelection))
    ELSE Returned(c, noGoodMatch(fieldName, c.value, c.alternatives))

\* a caller invokes validateField(value, fieldName, clientId) directly
Invoke(f) ==
    /\ mode = "direct"
    /\ f \in DOMAIN extractedFields
    /\ call[f].pc = "idle"
    /\ call' = [call EXCEPT ![f] = StartCall(f, extractedFields[f], NoRecord)]
    /\ UNCHANGED <<extractedFields, provider, oracle, mode, documentContext,
                   results, vpc, oracleCalls, blocks, dpc, out,
                   validatedFields>>
    /\ UNCHANGED <<procVars, simVars>>

\* the query of fetchMasterData settles and validateField continues
FetchReturn(f) ==
    /\ call[f].pc = "fetching"
    /\ LET outcome == provider[dataTypeMap(f)]
           next == IF outcome.kind = "throw"
                   THEN [call[f] EXCEPT !.pc = "thrown"]
                   ELSE AfterFetch(call[f], f, fetchMasterData(outcome))
       IN  /\ call' = [call EXCEPT ![f] = next]
           /\ oracleCalls' =
                 IF next.pc = "asking"
                 THEN Append(oracleCalls,
                        [field |-> f, value |-> next.value,
                         candidates |-> slice(next.alternatives, 0, 10),
                         context |-> next.context])
                 ELSE oracleCalls
    /\ UNCHANGED <<extractedFields, provider, oracle, mode, documentContext,
                   results, vpc, blocks, dpc, out,
                   validatedFields>>
    /\ UNCHANGED <<procVars, simVars>>

\* the completion call of selectBestMatchWithGPT settles with some reply
OracleReturn(f) ==
    /\ call[f].pc = "asking"
    /\ \E reply \in OracleReplies :
          /\ oracle' = [oracle EXCEPT ![f] = reply]
          /\ call' = [call EXCEPT ![f] =
                AfterOracle(call[f], f,
                    selectBestMatchWithGPT(slice(call[f].alternatives, 0, 10),
                                           reply))]
    /\ UNCHANGED <<extractedFields, provider, mode, documentContext,
                   results, vpc, oracleCalls, blocks, dpc, out,
                   validatedFields>>
    /\ UNCHANGED <<procVars, simVars>>

NoData == [kind |-> "nodata"]
NoReply == [kind |-> "json"]

\* the decode is not running
DecIdle == blocks = <<>> /\ dpc = "idle" /\ out = NoRecord

\* handler was not invoked
ProcIdle == event = <<>> /\ hpc = "idle" /\ jobs = <<>> /\ response = NoRecord

\* calculateSimilarity is not called on its own
SimIdle == sim = NoRecord

Init ==
    /\ extractedFields \in {[invoicing_party |-> v] : v \in ExtractedValues}
    /\ provider \in {[vendor |-> o, cost_center |-> NoData] :
                        o \in QueryOutcomes(VendorItems)
                            \cup {[kind |-> "data", data |-> LongVendorList],
                                  [kind |-> "data", data |-> FullVendorList]}}
    /\ oracle = [f \in ModelFields |-> NoReply]
    /\ mode = "direct"
    /\ documentContext = NoRecord
    /\ results = [f \in ModelFields |-> NoRecord]
    /\ vpc = "idle"
    /\ call = [f \in ModelFields |-> IdleCall]
    /\ oracleCalls = <<>>
    /\ validatedFields = NoRecord
    /\ DecIdle
    /\ ProcIdle
    /\ SimIdle

Next == \E f \in ModelFields : Invoke(f) \/ FetchReturn(f) \/ OracleReturn(f)

Spec == Init /\ [][Next]_vars

(***************************************************************************)
(* validateDocumentFields.  The loop of the source awaits each validateField *)
(* before it starts the next one (mode "sequential"); validateField is a   *)
(* public async method, so a caller can also have the calls of one record  *)
(* in flight together (mode "concurrent").                                 *)
(***************************************************************************)
\* extractedFields[name] of the source: undefined for a missing key
Field(fields, name) == IF name \in DOMAIN fields THEN fields[name] ELSE Absent

\* the documentContext object built before the loop
DocContext(fields) ==
    [vendor |-> OrElse(Field(fields, "invoicing_party"),
                       Field(fields, "vendor_name")),
     amount |-> Field(fields, "invoice_gross_amount"),
     date |-> Field(fields, "document_date"),
     description |-> Field(fields, "document_header_text")]

\* a context rebuilt at the call from the results so far
ContextFromResults(f) ==
    [documentContext EXCEPT !.vendor =
        IF results["invoicing_party"] # NoRecord
        THEN results["invoicing_party"].matched_code
        ELSE documentContext.vendor]

\* the documentContext argument given to validateField for field f
ContextFor(f) == documentContext

\* position of a field in Object.keys(LIST_MATCH_FIELDS)
KeyIndex(f) == CHOOSE i \in 1..Len(LIST_MATCH_FIELDS) : LIST_MATCH_FIELDS[i] = f

\* the fields the loop validates: keys of LIST_MATCH_FIELDS with a truthy value
Validated(fields) ==
    {f \in ModelFields :
        /\ \E i \in 1..Len(LIST_MATCH_FIELDS) : LIST_MATCH_FIELDS[i] = f
        /\ ~Falsy(Field(fields, f))}

\* validateDocumentFields up to the loop
VDStart ==
    /\ vpc = "idle"
    /\ mode \in {"sequential", "concurrent"}
    /\ documentContext' = DocContext(extractedFields)
    /\ vpc' = "loop"
    /\ UNCHANGED <<extractedFields, provider, oracle, mode, results, call,
                   oracleCalls, blocks, dpc, out,
                   validatedFields>>
    /\ UNCHANGED <<procVars, simVars>>

\* the loop reaches field f and calls validateField
VDCall(f) ==
    /\ vpc = "loop"
    /\ f \in Validated(extractedFields)
    /\ call[f].pc = "idle"
    /\ mode = "sequential" =>
          \A g \in Validated(extractedFields) :
              KeyIndex(g) < KeyIndex(f) => results[g] # NoRecord
    /\ call' = [call EXCEPT ![f] =
                   StartCall(f, extractedFields[f], ContextFor(f))]
    /\ UNCHANGED <<extractedFields, provider, oracle, mode, documentContext,
                   results, vpc, oracleCalls, blocks, dpc, out,
                   validatedFields>>
    /\ UNCHANGED <<procVars, simVars>>

\* results[fieldName] = the awaited ValidationResult
VDCollect(f) ==
    /\ vpc = "loop"
    /\ call[f].pc = "returned"
    /\ results[f] = NoRecord
    /\ results' = [results EXCEPT ![f] = call[f].result]
    /\ UNCHANGED <<extractedFields, provider, oracle, mode, documentContext,
                   vpc, call, oracleCalls, blocks, dpc, out,
                   validatedFields>>
    /\ UNCHANGED <<procVars, simVars>>

\* the exception of a validateField call leaves validateDocumentFields
VDThrow(f) ==
    /\ vpc = "loop"
    /\ call[f].pc = "thrown"
    /\ vpc' = "thrown"
    /\ UNCHANGED <<extractedFields, provider, oracle, mode, documentContext,
                   results, call, oracleCalls, blocks, dpc, out,
                   validatedFields>>
    /\ UNCHANGED <<procVars, simVars>>

\* return results
VDReturn ==
    /\ vpc = "loop"
    /\ \A f \in Validated(extractedFields) : results[f] # NoRecord
    /\ vpc' = "done"
    /\ UNCHANGED <<extractedFields, provider, oracle, mode, documentContext,
                   results, call, oracleCalls, blocks, dpc, out,
                   validatedFields>>
    /\ UNCHANGED <<procVars, simVars>>

\* processDocument: a result replaces the value of its field
Applies(validation) ==
    validation.confidence >= 85 /\ ~Falsy(validation.matched_code)

\* processDocument: validatedFields after the loop over validationResults
applyValidation(fields, validationResults) ==
    [k \in DOMAIN fields |->
        IF /\ k \in DOMAIN validationResults
           /\ validationResults[k] # NoRecord
           /\ Applies(validationResults[k])
        THEN validationResults[k].matched_code
        ELSE fields[k]]

\* processDocument applies the results that validateDocumentFields returned
ApplyValidation ==
    /\ vpc = "done"
    /\ mode = "sequential"
    /\ validatedFields' = applyValidation(extractedFields, results)
    /\ vpc' = "applied"
    /\ UNCHANGED <<extractedFields, provider, oracle, mode, documentContext,
                   results, call, oracleCalls, blocks, dpc, out>>
    /\ UNCHANGED <<procVars, simVars>>

\* the vendor rows of the records validated as a whole
DocVendorItems == {
    MasterDataItem(<<"V","1","0","0">>, ACME_FOODS),
    MasterDataItem(<<"V","3","0","0">>, AcmeFloods),
    MasterDataItem(<<"V","4","0","0">>, AcmeGoadsCo) }

DocInit ==
    /\ extractedFields \in
          {[invoicing_party |-> a, cost_center |-> b] :
              a \in {AcmeFoods, <<>>}, b \in {SalesDept, Null}}
          \cup {[invoicing_party |-> AcmeFoods, cost_center |-> SalesDept,
                 vendor_name |-> AcmeGoods],
                [cost_center |-> SalesDept, vendor_name |-> AcmeGoods]}
    /\ provider \in {[vendor |-> v, cost_center |-> c] :
                        v \in QueryOutcomes(DocVendorItems),
                        c \in QueryOutcomes(CostCenterItems)}
    /\ oracle = [f \in ModelFields |-> NoReply]
    /\ mode \in {"sequential", "concurrent"}
    /\ documentContext = NoRecord
    /\ results = [f \in ModelFields |-> NoRecord]
    /\ vpc = "idle"
    /\ call = [f \in ModelFields |-> IdleCall]
    /\ oracleCalls = <<>>
    /\ validatedFields = NoRecord
    /\ DecIdle
    /\ ProcIdle
    /\ SimIdle

DocNext ==
    \/ VDStart
    \/ VDReturn
    \/ ApplyValidation
    \/ \E f \in ModelFields :
          \/ VDCall(f) \/ FetchReturn(f) \/ OracleReturn(f)
          \/ VDCollect(f) \/ VDThrow(f)

DocSpec == DocInit /\ [][DocNext]_vars

\* validateField run on its own, start to return, with the outcome of the
\* query and the reply of the oracle it is given
validateField(fieldName, extractedValue, context, outcome, reply) ==
    LET c0 == StartCall(fieldName, extractedValue, context)
        c1 == IF c0.pc = "fetching"
              THEN AfterFetch(c0, fieldName, fetchMasterData(outcome))
              ELSE c0
        c2 == IF c1.pc = "asking"
              THEN AfterOracle(c1, fieldName,
                       selectBestMatchWithGPT(slice(c1.alternatives, 0, 10),
                                              reply))
              ELSE c1
    IN  c2.result

\* C8: when validateDocumentFields returns, under either scheduling and
\* every interleaving of the calls, the map holds for each validated field
\* the result that validateField gives when run alone on that field with the
\* same collaborator answers, and nothing for the other fields; and every
\* oracle call was given the candidates of its own field and the context
\* snapshot built from the record before the first validation, so that the
\* answers of deterministic collaborators cannot depend on the schedule.
C8_ConcurrentEqualsSequential ==
    /\ vpc = "done" =>
          \A f \in ModelFields :
              results[f] =
                  IF f \in Validated(extractedFields)
                  THEN validateField(f, extractedFields[f],
                                     DocContext(extractedFields),
                                     provider[dataTypeMap(f)], oracle[f])
                  ELSE NoRecord
    /\ \A i \in 1..Len(oracleCalls) :
          LET f == oracleCalls[i].field
          IN  /\ oracleCalls[i].context = DocContext(extractedFields)
              /\ oracleCalls[i].value = extractedFields[f]
              /\ oracleCalls[i].candidates =
                    slice(alternativesOf(fetchMasterData(provider[dataTypeMap(f)]),
                                         extractedFields[f]), 0, 10)
              /\ \A j \in 1..Len(oracleCalls) :
                    oracleCalls[j].field = f => j = i

\* both fields were validated with their calls in flight together, the
\* call of the later field asked the oracle first, and the map was returned
C8_Witness ==
    /\ mode = "concurrent"
    /\ vpc = "done"
    /\ Len(oracleCalls) = 2
    /\ oracleCalls[1].field = "cost_center"
    /\ oracleCalls[2].field = "invoicing_party"
    /\ results["invoicing_party"].status = "fuzzy_low"
    /\ results["cost_center"].status = "no_match"

(***************************************************************************)
(* The block processing of extractText (Textract block graph)              *)
(***************************************************************************)
\* block.Field of the source: undefined when the block lacks the field
Get(block, field) == IF field \in DOMAIN block THEN block[field] ELSE Absent

\* number || fallback
NumGet(block, field, fallback) ==
    IF field \in DOMAIN block THEN NumOrElse(block[field], fallback)
    ELSE fallback

\* a Map of the source: entries in insertion order, set replaces in place
MapHas(map, key) == \E i \in 1..Len(map) : map[i].key = key

MapGet(map, key) ==
    IF MapHas(map, key)
    THEN map[CHOOSE i \in 1..Len(map) : map[i].key = key].value
    ELSE NoRecord

MapSet(map, key, value) ==
    IF MapHas(map, key)
    THEN [i \in 1..Len(map) |->
            IF map[i].key = key THEN [key |-> key, value |-> value]
            ELSE map[i]]
    ELSE Append(map, [key |-> key, value |-> value])

IsKeyBlock(b) ==
    /\ Get(b, "BlockType") = "KEY_VALUE_SET"
    /\ "EntityTypes" \in DOMAIN b
    /\ \E i \in 1..Len(b.EntityTypes) : b.EntityTypes[i] = "KEY"

IsValueBlock(b) == Get(b, "BlockType") = "KEY_VALUE_SET" /\ ~IsKeyBlock(b)
IsTableBlock(b) == Get(b, "BlockType") = "TABLE"
IsCellBlock(b) == Get(b, "BlockType") = "CELL"

\* the blocks that the first pass sets in each of its maps
Keeps(mapName, b) ==
    CASE mapName = "blockMap" -> TRUE
      [] mapName = "keyMap" -> IsKeyBlock(b)
      [] mapName = "valueMap" -> IsValueBlock(b)
      [] mapName = "tableMap" -> IsTableBlock(b)
      [] mapName = "cellMap" -> IsCellBlock(b)

\* first pass: one of the maps, keyed by Id
RECURSIVE BuildMap(_, _, _)
BuildMap(bs, mapName, map) ==
    IF bs = <<>> THEN map
    ELSE BuildMap(Tail(bs), mapName,
                  IF Keeps(mapName, Head(bs))
                  THEN MapSet(map, Get(Head(bs), "Id"), Head(bs))
                  ELSE map)

\* the Ids of the relationships of one type, in edge order
RECURSIVE IdsOf(_, _)
IdsOf(relationships, type) ==
    IF relationships = <<>> THEN <<>>
    ELSE LET r == Head(relationships)
         IN  (IF Get(r, "Type") = type /\ "Ids" \in DOMAIN r THEN r.Ids
              ELSE <<>>) \o IdsOf(Tail(relationships), type)

RelatedIds(block, type) ==
    IF "Relationships" \in DOMAIN block THEN IdsOf(block.Relationships, type)
    ELSE <<>>

\* the string that childBlock.Text + ' ' starts with
UndefinedText == <<"u","n","d","e","f","i","n","e","d">>
ToText(x) == IF x = Absent THEN UndefinedText ELSE x

RECURSIVE WordsText(_, _)
WordsText(ids, blockMap) ==
    IF ids = <<>> THEN <<>>
    ELSE LET childBlock == MapGet(blockMap, Head(ids))
         IN  (IF childBlock # NoRecord /\ Get(childBlock, "BlockType") = "WORD"
              THEN ToText(Get(childBlock, "Text")) \o <<" ">>
              ELSE <<>>) \o WordsText(Tail(ids), blockMap)

getText(block, blockMap) == trim(WordsText(RelatedIds(block, "CHILD"), blockMap))

\* the value block kept by a scan that stops at the first id found
RECURSIVE FirstFound(_, _)
FirstFound(ids, valueMap) ==
    IF ids = <<>> THEN NoRecord
    ELSE IF MapHas(valueMap, Head(ids)) THEN MapGet(valueMap, Head(ids))
    ELSE FirstFound(Tail(ids), valueMap)

findValueBlockFirst(keyBlock, valueMap) ==
    FirstFound(RelatedIds(keyBlock, "VALUE"), valueMap)

\* the value block picked by the order of valueMap instead of the edges
findValueBlockByMapOrder(keyBlock, valueMap) ==
    LET ids == RelatedIds(keyBlock, "VALUE")
        hits == {i \in 1..Len(valueMap) :
                    \E k \in 1..Len(ids) : ids[k] = valueMap[i].key}
    IN  IF hits = {} THEN NoRecord
        ELSE valueMap[CHOOSE i \in hits : \A k \in hits : i >= k].value

\* a key block that finds no value block is taken as its own value block
findValueBlockOrSelf(keyBlock, valueMap) ==
    LET found == FirstFound(RelatedIds(keyBlock, "VALUE"), valueMap)
    IN  IF found = NoRecord THEN keyBlock ELSE found

\* both forEach loops run to the end: valueBlock is overwritten by every id
\* that valueMap has
RECURSIVE LastFound(_, _, _)
LastFound(ids, valueMap, valueBlock) ==
    IF ids = <<>> THEN valueBlock
    ELSE LastFound(Tail(ids), valueMap,
                   IF MapHas(valueMap, Head(ids))
                   THEN MapGet(valueMap, Head(ids))
                   ELSE valueBlock)

findValueBlock(keyBlock, valueMap) ==
    LastFound(RelatedIds(keyBlock, "VALUE"), valueMap, NoRecord)

\* a JavaScript array: its length and its own index properties (an index
\* below length that is no property is a hole; a negative index is a
\* property that does not count for length)
EmptyArray == [length |-> 0, at |-> <<>>]

ArrayHas(arr, i) == i \in DOMAIN arr.at

ArraySet(arr, i, v) ==
    [length |-> IF i >= 0 THEN Max(arr.length, i + 1) ELSE arr.length,
     at |-> (i :> v) @@ arr.at]

\* the cells array of extractTable
RECURSIVE TableCells(_, _, _)
TableCells(ids, cellMap, blockMap) ==
    IF ids = <<>> THEN <<>>
    ELSE LET cell == MapGet(cellMap, Head(ids))
         IN  (IF cell # NoRecord
              THEN << [rowIndex |-> NumGet(cell, "RowIndex", 0),
                       columnIndex |-> NumGet(cell, "ColumnIndex", 0),
                       text |-> getText(cell, blockMap),
                       rowSpan |-> NumGet(cell, "RowSpan", 1),
                       columnSpan |-> NumGet(cell, "ColumnSpan", 1)] >>
              ELSE <<>>) \o TableCells(Tail(ids), cellMap, blockMap)

\* cells.forEach: rows[rowIndex - 1][columnIndex - 1] = text
RECURSIVE PlaceCells(_, _)
PlaceCells(cells, rows) ==
    IF cells = <<>> THEN rows
    ELSE LET cell == Head(cells)
             r == cell.rowIndex - 1
             row == IF ArrayHas(rows, r) THEN rows.at[r] ELSE EmptyArray
         IN  PlaceCells(Tail(cells),
                        ArraySet(rows, r,
                                 ArraySet(row, cell.columnIndex - 1, cell.text)))

\* rows.filter(row => row && row.length > 0): holes are skipped
RECURSIVE FilterRows(_, _)
FilterRows(rows, i) ==
    IF i >= rows.length THEN <<>>
    ELSE (IF ArrayHas(rows, i) /\ rows.at[i].length > 0
          THEN <<rows.at[i]>> ELSE <<>>) \o FilterRows(rows, i + 1)

extractTable(tableBlock, cellMap, blockMap) ==
    LET cells == TableCells(RelatedIds(tableBlock, "CHILD"), cellMap, blockMap)
    IN  [rows |-> FilterRows(PlaceCells(cells, EmptyArray), 0),
         rawCells |-> cells]

\* fullText of the second pass
RECURSIVE LinesText(_)
LinesText(bs) ==
    IF bs = <<>> THEN <<>>
    ELSE (IF Get(Head(bs), "BlockType") = "LINE" /\ ~Falsy(Get(Head(bs), "Text"))
          THEN Head(bs).Text \o <<"\n">> ELSE <<>>) \o LinesText(Tail(bs))

\* one layout sequence of the second pass: block.Text || ''
RECURSIVE LayoutTexts(_, _)
LayoutTexts(bs, type) ==
    IF bs = <<>> THEN <<>>
    ELSE (IF Get(Head(bs), "BlockType") = type
          THEN <<OrElse(Get(Head(bs), "Text"), <<>>)>> ELSE <<>>)
         \o LayoutTexts(Tail(bs), type)

RECURSIVE Signatures(_)
Signatures(bs) ==
    IF bs = <<>> THEN <<>>
    ELSE (IF Get(Head(bs), "BlockType") = "SIGNATURE"
          THEN << [confidence |-> Get(Head(bs), "Confidence"),
                   geometry |-> Get(Head(bs), "Geometry")] >>
          ELSE <<>>) \o Signatures(Tail(bs))

\* the key-value pairs when an assignment keeps the entry a key already has
RECURSIVE KeyValuePairsFirstWins(_, _, _, _)
KeyValuePairsFirstWins(keyMap, valueMap, blockMap, keyValues) ==
    IF keyMap = <<>> THEN keyValues
    ELSE LET keyBlock == Head(keyMap).value
             valueBlock == findValueBlock(keyBlock, valueMap)
             keyText == getText(keyBlock, blockMap)
             valueText == getText(valueBlock, blockMap)
         IN  KeyValuePairsFirstWins(Tail(keyMap), valueMap, blockMap,
                IF /\ valueBlock # NoRecord /\ keyText # <<>> /\ valueText # <<>>
                   /\ \A kv \in keyValues : kv.key # keyText
                THEN keyValues \cup {[key |-> keyText, value |-> valueText]}
                ELSE keyValues)

\* keyMap.forEach: keyValues[keyText] = valueText; keyValues is the set of
\* its key/value entries, an assignment replaces the entry of the key
RECURSIVE KeyValuePairs(_, _, _, _)
KeyValuePairs(keyMap, valueMap, blockMap, keyValues) ==
    IF keyMap = <<>> THEN keyValues
    ELSE LET keyBlock == Head(keyMap).value
             valueBlock == findValueBlock(keyBlock, valueMap)
             keyText == getText(keyBlock, blockMap)
             valueText == getText(valueBlock, blockMap)
         IN  KeyValuePairs(Tail(keyMap), valueMap, blockMap,
                IF valueBlock # NoRecord /\ keyText # <<>> /\ valueText # <<>>
                THEN {kv \in keyValues : kv.key # keyText}
                     \cup {[key |-> keyText, value |-> valueText]}
                ELSE keyValues)

\* tableMap.forEach: tables with at least one row are pushed
RECURSIVE Tables(_, _, _)
Tables(tableMap, cellMap, blockMap) ==
    IF tableMap = <<>> THEN <<>>
    ELSE LET table == extractTable(Head(tableMap).value, cellMap, blockMap)
         IN  (IF Len(table.rows) > 0 THEN <<table>> ELSE <<>>)
             \o Tables(Tail(tableMap), cellMap, blockMap)

\* extractText from the Textract result to the returned ExtractedData
extractText(bs) ==
    LET blockMap == BuildMap(bs, "blockMap", <<>>)
        keyMap == BuildMap(bs, "keyMap", <<>>)
        valueMap == BuildMap(bs, "valueMap", <<>>)
        tableMap == BuildMap(bs, "tableMap", <<>>)
        cellMap == BuildMap(bs, "cellMap", <<>>)
    IN  [text |-> LinesText(bs),
         keyValues |-> KeyValuePairs(keyMap, valueMap, blockMap, {}),
         tables |-> Tables(tableMap, cellMap, blockMap),
         layout |-> [titles |-> LayoutTexts(bs, "LAYOUT_TITLE"),
                     headers |-> LayoutTexts(bs, "LAYOUT_HEADER"),
                     sections |-> LayoutTexts(bs, "LAYOUT_SECTION_HEADER"),
                     lists |-> LayoutTexts(bs, "LAYOUT_LIST")],
         signatures |-> Signatures(bs)]

(***************************************************************************)
(* Decoding one Textract response.  The response is a list of blocks; the  *)
(* service may leave blocks out of it (Drop) and lists them in any order   *)
(* (Reorder, which decodes the reordered list again).                      *)
(***************************************************************************)
Total == <<"T","o","t","a","l">>
Ten == <<"1","0">>
Twenty == <<"2","0">>

Word(id, text) == [Id |-> id, BlockType |-> "WORD", Text |-> text]

KeyBlock(id, childIds, valueIds) ==
    [Id |-> id, BlockType |-> "KEY_VALUE_SET", EntityTypes |-> <<"KEY">>,
     Relationships |-> << [Type |-> "VALUE", Ids |-> valueIds],
                          [Type |-> "CHILD", Ids |-> childIds] >>]

ValueBlock(id, childIds) ==
    [Id |-> id, BlockType |-> "KEY_VALUE_SET", EntityTypes |-> <<"VALUE">>,
     Relationships |-> << [Type |-> "CHILD", Ids |-> childIds] >>]

Layout(id, type, text) == [Id |-> id, BlockType |-> type, Text |-> text]

\* a key with two value blocks
DocForm ==
    << KeyBlock("K1", <<"W1">>, <<"V1", "V2">>),
       ValueBlock("V1", <<"W2">>), ValueBlock("V2", <<"W3">>),
       Word("W1", Total), Word("W2", Ten), Word("W3", Twenty) >>

\* two key blocks with the same key text
DocDupKey ==
    << KeyBlock("K1", <<"W1">>, <<"V1">>), KeyBlock("K2", <<"W1">>, <<"V2">>),
       ValueBlock("V1", <<"W2">>), ValueBlock("V2", <<"W1">>),
       Word("W1", Total), Word("W2", Ten) >>

\* lines and layout blocks
DocLayout ==
    << Layout("L1", "LINE", <<"a">>), Layout("L2", "LINE", <<"b">>),
       Layout("T1", "LAYOUT_TITLE", <<"t">>),
       Layout("T2", "LAYOUT_TITLE", <<"u">>),
       [Id |-> "H1", BlockType |-> "LAYOUT_HEADER"],
       Layout("S1", "LAYOUT_SECTION_HEADER", <<"s">>) >>

\* the other block types
DocExtras ==
    << Layout("I1", "LAYOUT_LIST", <<"i">>),
       Layout("I2", "LAYOUT_LIST", <<"j">>),
       Layout("F1", "LAYOUT_FOOTER", <<"f">>),
       [Id |-> "L3", BlockType |-> "LINE"],
       [Id |-> "G1", BlockType |-> "SIGNATURE", Confidence |-> 99],
       [Id |-> "P1", BlockType |-> "PAGE",
        Relationships |-> << [Type |-> "CHILD", Ids |-> <<"L3">>] >>] >>

\* dangling ids, a key block without VALUE relationship, a relationship
\* without Ids, a word without Text or Relationships, a KEY_VALUE_SET block
\* without EntityTypes
DocMalformed ==
    << KeyBlock("K3", <<"W4", "WX">>, <<"V1", "VX">>),
       ValueBlock("V1", <<"W2">>),
       [Id |-> "W4", BlockType |-> "WORD"],
       Word("W2", Ten),
       [Id |-> "K4", BlockType |-> "KEY_VALUE_SET", EntityTypes |-> <<"KEY">>,
        Relationships |-> << [Type |-> "CHILD", Ids |-> <<"W2">>] >>],
       [Id |-> "V5", BlockType |-> "KEY_VALUE_SET",
        Relationships |-> << [Type |-> "CHILD"] >>] >>

\* two tables that share a cell; a cell without children, a cell without
\* indices, a dangling cell id
DocTable ==
    << [Id |-> "B1", BlockType |-> "TABLE",
        Relationships |-> << [Type |-> "CHILD",
                              Ids |-> <<"C1", "C2", "C3", "CX">>] >>],
       [Id |-> "B2", BlockType |-> "TABLE",
        Relationships |-> << [Type |-> "CHILD", Ids |-> <<"C2">>] >>],
       [Id |-> "C1", BlockType |-> "CELL", RowIndex |-> 1, ColumnIndex |-> 1,
        Relationships |-> << [Type |-> "CHILD", Ids |-> <<"W1">>] >>],
       [Id |-> "C2", BlockType |-> "CELL", RowIndex |-> 2, ColumnIndex |-> 2],
       [Id |-> "C3", BlockType |-> "CELL",
        Relationships |-> << [Type |-> "CHILD", Ids |-> <<"W1">>] >>],
       Word("W1", Total) >>

Documents == {DocForm, DocDupKey, DocLayout, DocExtras, DocMalformed, DocTable}

\* the validation engine is not running
ValIdle ==
    /\ extractedFields = [invoicing_party |-> Null]
    /\ provider = [vendor |-> NoData, cost_center |-> NoData]
    /\ oracle = [f \in ModelFields |-> NoReply]
    /\ mode = "direct"
    /\ documentContext = NoRecord
    /\ results = [f \in ModelFields |-> NoRecord]
    /\ vpc = "idle"
    /\ call = [f \in ModelFields |-> IdleCall]
    /\ oracleCalls = <<>>
    /\ validatedFields = NoRecord

\* the service leaves block i out of its response
Drop(i) ==
    /\ dpc = "input"
    /\ i \in 1..Len(blocks)
    /\ blocks' = [k \in 1..(Len(blocks) - 1) |->
                    IF k < i THEN blocks[k] ELSE blocks[k + 1]]
    /\ UNCHANGED <<dpc, out>>
    /\ UNCHANGED valVars
    /\ UNCHANGED <<procVars, simVars>>

\* textractResult.Blocks?.forEach ... return of extractText
Decode ==
    /\ dpc = "input"
    /\ dpc' = "decoded"
    /\ out' = extractText(blocks)
    /\ UNCHANGED blocks
    /\ UNCHANGED valVars
    /\ UNCHANGED <<procVars, simVars>>

\* the same blocks with blocks i and i + 1 exchanged, decoded again
Reorder(i) ==
    /\ dpc = "decoded"
    /\ i \in 1..(Len(blocks) - 1)
    /\ blocks' = [blocks EXCEPT ![i] = blocks[i + 1], ![i + 1] = blocks[i]]
    /\ out' = extractText(blocks')
    /\ UNCHANGED dpc
    /\ UNCHANGED valVars
    /\ UNCHANGED <<procVars, simVars>>

DecInit ==
    /\ blocks \in Documents
    /\ dpc = "input"
    /\ out = NoRecord
    /\ ValIdle
    /\ ProcIdle
    /\ SimIdle

DecNext ==
    \/ Decode
    \/ \E i \in 1..Len(blocks) : Drop(i)
    \/ \E i \in 1..Len(blocks) : Reorder(i)

DecSpec == DecInit /\ [][DecNext]_vars

(***************************************************************************)
(* handler, validateJobData, extractWithGPT4 and processDocument           *)
(* (src/unnamed/part_001).  handler starts one callback per record; the    *)
(* callbacks run interleaved at their awaits.                              *)
(***************************************************************************)
\* the number of records of the largest batch
MaxRecords == 2

\* the test client of processDocument: '00000000-0000-0000-0000-000000000000'
DefaultClientId ==
    [i \in 1..36 |-> IF i \in {9, 14, 19, 24} THEN "-" ELSE "0"]

ClientA == <<"c","l","i","e","n","t","-","a">>
Doc1 == <<"d","o","c","-","1">>
User1 == <<"u","s","e","r","-","1">>
FileUrl == <<"s","3",":","/","/","b","/","i",".","p","d","f">>
InvoicePDF == <<"i","n","v",".","P","D","F">>
NotesTxt == <<"n","o","t","e","s",".","t","x","t">>

SUPPORTED_FILE_TYPES ==
    { <<".","p","d","f">>, <<".","j","p","g">>, <<".","j","p","e","g">>,
      <<".","p","n","g">>, <<".","w","e","b","p">>, <<".","g","i","f">> }

\* an exception: a thrown Error object, or a thrown value that is no Error
\* (the error object a store call returned)
ErrorOf(message) == [isError |-> TRUE, message |-> message]
StoreError == [isError |-> FALSE, message |-> "store error"]

\* error instanceof Error ? error.message : 'Unknown error'
MessageOf(error) == IF error.isError THEN error.message ELSE "Unknown error"

\* String.prototype.lastIndexOf for a one-character pattern, 0-based
lastIndexOf(s, ch) ==
    LET hits == {i \in 1..Len(s) : s[i] = ch}
    IN  IF hits = {} THEN -1
        ELSE (CHOOSE i \in hits : \A k \in hits : k <= i) - 1

\* String.prototype.substring(from): a negative start counts as 0
substring(s, from) == SubSeq(s, Max(from, 0) + 1, Len(s))

\* new URL(fileUrl) accepts a string that begins with a scheme and a colon
IsSchemeChar(c) == (IsWordChar(c) /\ c # "_") \/ c \in {"+", "-", "."}

IsValidUrl(s) ==
    \E i \in 2..Len(s) :
        /\ s[i] = ":"
        /\ \E k \in 1..26 : UpperChars[k] = s[1] \/ LowerChars[k] = s[1]
        /\ \A k \in 1..(i - 1) : IsSchemeChar(s[k])

\* typeof data === 'object' for a parsed JSON value
IsObject(data) == "number" \notin DOMAIN data

\* !x || typeof x !== 'string' || x.trim().length === 0 for a key of data
BlankString(data, key) ==
    Falsy(Field(data, key)) \/ Len(trim(Field(data, key))) = 0

\* validateJobData: the job data it returns, or the Error it throws
validateJobData(data) ==
    IF ~IsObject(data)
    THEN [threw |-> TRUE,
          error |-> ErrorOf("Invalid job data: must be an object")]
    ELSE IF BlankString(data, "documentId")
    THEN [threw |-> TRUE,
          error |-> ErrorOf("Invalid documentId: must be a non-empty string")]
    ELSE IF BlankString(data, "userId")
    THEN [threw |-> TRUE,
          error |-> ErrorOf("Invalid userId: must be a non-empty string")]
    ELSE IF Falsy(Field(data, "fileUrl"))
    THEN [threw |-> TRUE,
          error |-> ErrorOf("Invalid fileUrl: must be a string")]
    ELSE IF ~IsValidUrl(data.fileUrl)
    THEN [threw |-> TRUE,
          error |-> ErrorOf("Invalid fileUrl: must be a valid URL")]
    ELSE IF BlankString(data, "filename")
    THEN [threw |-> TRUE,
          error |-> ErrorOf("Invalid filename: must be a non-empty string")]
    ELSE IF substring(toLowerCase(data.filename),
                      lastIndexOf(data.filename, "."))
               \notin SUPPORTED_FILE_TYPES
    THEN [threw |-> TRUE, error |-> ErrorOf("Unsupported file type")]
    ELSE [threw |-> FALSE,
          value |-> [documentId |-> data.documentId,
                     userId |-> data.userId,
                     fileUrl |-> data.fileUrl,
                     filename |-> data.filename,
                     receiptHandle |-> Field(data, "receiptHandle")]]

\* jobData.clientId || '00000000-0000-0000-0000-000000000000'
clientIdOf(jobData) == OrElse(Field(jobData, "clientId"), DefaultClientId)

(***************************************************************************)
(* extractWithGPT4 after the completion call                               *)
(***************************************************************************)
\* values of the JSON object the completion returns
JsonString(s) == [type |-> "string", s |-> s]
JsonNull == [type |-> "null"]
JsonArray(items) == [type |-> "array", items |-> items]

\* Array.prototype.join
RECURSIVE join(_, _)
join(items, sep) ==
    IF items = <<>> THEN <<>>
    ELSE IF Len(items) = 1 THEN items[1]
    ELSE items[1] \o sep \o join(Tail(items), sep)

\* key.toLowerCase().includes('item') || ...includes('text') ||
\* ...includes('description'), for a key given as a sequence of characters
JoinsWithPipe(keyChars) ==
    \/ includes(toLowerCase(keyChars), <<"i","t","e","m">>)
    \/ includes(toLowerCase(keyChars), <<"t","e","x","t">>)
    \/ includes(toLowerCase(keyChars),
                <<"d","e","s","c","r","i","p","t","i","o","n">>)

\* the characters of the keys the completion returns
KeyChars(key) ==
    CASE key = "invoicing_party" ->
             <<"i","n","v","o","i","c","i","n","g","_","p","a","r","t","y">>
      [] key = "document_date" ->
             <<"d","o","c","u","m","e","n","t","_","d","a","t","e">>
      [] key = "invoice_gross_amount" ->
             <<"i","n","v","o","i","c","e","_","g","r","o","s","s","_",
               "a","m","o","u","n","t">>
      [] key = "document_header_text" ->
             <<"d","o","c","u","m","e","n","t","_","h","e","a","d","e","r",
               "_","t","e","x","t">>
      [] key = "tax_rates" -> <<"t","a","x","_","r","a","t","e","s">>
      [] OTHER -> <<>>

\* normalizedValue of the loop over Object.entries(result)
normalizedValue(key, value) ==
    IF value.type = "array"
    THEN join(value.items,
              IF JoinsWithPipe(KeyChars(key)) THEN <<" ","|"," ">>
              ELSE <<",", " ">>)
    ELSE IF value.type = "null" THEN Null
    ELSE value.s

\* fieldsWithConfidence: every key of the result gets an object that holds
\* the normalized value and the confidence 0.95
fieldsWithConfidence(result) ==
    [key \in DOMAIN result |->
        [value |-> normalizedValue(key, result[key]),
         confidence |-> Ratio(95, 100)]]

\* extractWithGPT4 from the settled completion call to its return or throw:
\* safeJsonParse turns content that is no JSON into {}
extractWithGPT4(completion, extractedData) ==
    IF completion.kind = "throw"
    THEN [threw |-> TRUE, error |-> ErrorOf("GPT-4 request failed")]
    ELSE IF completion.kind = "empty"
    THEN [threw |-> TRUE, error |-> ErrorOf("GPT-4 returned empty response")]
    ELSE [threw |-> FALSE,
          value |-> [fields |-> IF completion.kind = "json"
                                THEN fieldsWithConfidence(completion.result)
                                ELSE << >>,
                     confidence |-> Ratio(95, 100),
                     full_text |-> extractedData.text]]

(***************************************************************************)
(* The validation step of processDocument: validateDocumentFields is given *)
(* extracted.fields, whose values are the objects of fieldsWithConfidence  *)
(***************************************************************************)
\* the query of fetchMasterData against the rows of erp_master_data: the
\* store holds rows of data type vendor per client
QueryOf(erp, clientId, dataType) ==
    IF dataType = "vendor" /\ clientId \in DOMAIN erp
    THEN [kind |-> "data", data |-> erp[clientId]]
    ELSE NoData

\* validateField for an extractedValue that is an object: !extractedValue is
\* false, the list is fetched, and with a non-empty list the exact-match
\* test calls extractedValue.toLowerCase, which an object does not have
validateFieldOfObject(extractedValue, fieldName, masterData) ==
    IF Len(masterData) = 0
    THEN [threw |-> FALSE, value |-> emptyResult(fieldName, extractedValue)]
    ELSE [threw |-> TRUE,
          error |-> ErrorOf("extractedValue.toLowerCase is not a function")]

\* the loop of validateDocumentFields from key k on: an object is truthy, so
\* every key of LIST_MATCH_FIELDS that the record has is validated
RECURSIVE ValidateFrom(_, _, _, _, _)
ValidateFrom(fields, clientId, erp, k, acc) ==
    IF k > Len(LIST_MATCH_FIELDS) THEN acc
    ELSE LET fieldName == LIST_MATCH_FIELDS[k]
             dataType == dataTypeMap(fieldName)
             masterData == fetchMasterData(QueryOf(erp, clientId, dataType))
             r == validateFieldOfObject(fields[fieldName], fieldName,
                                        masterData)
             fetched == Append(acc.fetches, [clientId |-> clientId,
                                             dataType |-> dataType])
         IN  IF fieldName \notin DOMAIN fields
             THEN ValidateFrom(fields, clientId, erp, k + 1, acc)
             ELSE IF r.threw
             THEN [acc EXCEPT !.threw = TRUE, !.error = r.error,
                              !.fetches = fetched]
             ELSE ValidateFrom(fields, clientId, erp, k + 1,
                      [acc EXCEPT !.results = (fieldName :> r.value) @@ @,
                                  !.fetches = fetched])

\* validateDocumentFields(extracted.fields, clientId): the results or the
\* exception, and the queries it made
validateDocumentFields(fields, clientId, erp) ==
    ValidateFrom(fields, clientId, erp, 1,
                 [threw |-> FALSE, error |-> NoRecord, results |-> << >>,
                  fetches |-> << >>])

\* determineStatus: every value of the fields is an object, which is truthy
determineStatus(fields) ==
    IF {"invoicing_party", "document_date", "invoice_gross_amount"}
           \subseteq DOMAIN fields
    THEN "ready_for_export" ELSE "needs_mapping"

(***************************************************************************)
(* processDocument: one action per await                                   *)
(***************************************************************************)
\* an update of the documents row: what was sent and whether the store
\* applied it
Write(status, message, accounting, outcome) ==
    [status |-> status, error_message |-> message,
     accounting_status |-> accounting, applied |-> outcome = "ok"]

\* the callback of handler for one record, before it runs
PendingJob(e) ==
    [pc |-> "pending", env |-> e, jobData |-> NoRecord,
     smartRules |-> NoRecord, extractedData |-> NoRecord,
     extracted |-> NoRecord, validated |-> FALSE, finalFields |-> NoRecord,
     writes |-> << >>, fetches |-> << >>, error |-> NoRecord,
     settled |-> NoRecord]

\* the catch of the callback of handler: the promise is fulfilled with the
\* failure record
Caught(job, error, index) ==
    [job EXCEPT !.pc = "settled", !.error = error,
                !.settled = [status |-> "fulfilled",
                             value |-> [success |-> FALSE,
                                        error |-> MessageOf(error),
                                        index |-> index]]]

\* the catch of processDocument is entered: the update to 'failed' is sent
Failing(job, error) == [job EXCEPT !.pc = "failing", !.error = error]

\* the callback up to its first await: the record is checked, its body is
\* parsed and validated, and processDocument sends the update to 'processing'
StartRecord(record, job, index) ==
    IF record.body.kind = "missing"
    THEN Caught(job, ErrorOf("Invalid SQS record: missing body"), index)
    ELSE IF record.body.kind = "text" \/ record.body.data = JsonNull
    THEN Caught(job, ErrorOf("Invalid JSON in SQS record body"), index)
    ELSE LET v == validateJobData(record.body.data)
         IN  IF v.threw THEN Caught(job, v.error, index)
             ELSE [job EXCEPT !.pc = "processing", !.jobData = v.value]

\* body: JSON.stringify({ successful, failed }) of the settled promises
BatchBody(settled) ==
    [successful |-> Cardinality({i \in DOMAIN settled :
                                    settled[i].status = "fulfilled"}),
     failed |-> Cardinality({i \in DOMAIN settled :
                                settled[i].status = "rejected"})]

\* handler up to the await of Promise.allSettled (an empty batch returns at
\* once): the callbacks start in the order of the records
HandlerInvoke ==
    /\ hpc = "idle"
    /\ IF Len(event) = 0
       THEN /\ hpc' = "returned"
            /\ response' = [statusCode |-> 200,
                            body |-> [successful |-> 0, failed |-> 0,
                                      message |-> "No records to process"]]
            /\ UNCHANGED jobs
       ELSE /\ hpc' = "waiting"
            /\ jobs' = [i \in DOMAIN event |->
                          StartRecord(event[i], jobs[i], i - 1)]
            /\ UNCHANGED response
    /\ UNCHANGED event
    /\ UNCHANGED <<valVars, decVars, simVars>>

\* the update to status 'processing' settles; its error is not looked at
StatusProcessing(i) ==
    /\ hpc = "waiting"
    /\ jobs[i].pc = "processing"
    /\ jobs' = [jobs EXCEPT ![i] =
          [@ EXCEPT !.pc = "lookups",
                    !.writes = Append(@, Write("processing", Null, Null,
                                               jobs[i].env.processing))]]
    /\ UNCHANGED <<event, hpc, response>>
    /\ UNCHANGED <<valVars, decVars, simVars>>

\* the queries of user_settings, client_schemas and smart_rules settle: a
\* query that fails gives data null, and its error is not looked at
Lookups(i) ==
    /\ hpc = "waiting"
    /\ jobs[i].pc = "lookups"
    /\ jobs' = [jobs EXCEPT ![i] =
          [@ EXCEPT !.pc = "textract",
                    !.smartRules =
                        IF jobs[i].env.rules.kind = "error" THEN NoRecord
                        ELSE [data |-> jobs[i].env.rules.data]]]
    /\ UNCHANGED <<event, hpc, response>>
    /\ UNCHANGED <<valVars, decVars, simVars>>

\* Step 1: extractText settles
Textract(i) ==
    /\ hpc = "waiting"
    /\ jobs[i].pc = "textract"
    /\ jobs' = [jobs EXCEPT ![i] =
          IF jobs[i].env.textract.kind = "throw"
          THEN Failing(@, ErrorOf("Textract request failed"))
          ELSE [@ EXCEPT !.pc = "gpt4",
                         !.extractedData =
                             extractText(jobs[i].env.textract.blocks)]]
    /\ UNCHANGED <<event, hpc, response>>
    /\ UNCHANGED <<valVars, decVars, simVars>>

\* Step 2: extractWithGPT4 settles
ExtractFields(i) ==
    /\ hpc = "waiting"
    /\ jobs[i].pc = "gpt4"
    /\ LET r == extractWithGPT4(jobs[i].env.gpt, jobs[i].extractedData)
       IN  jobs' = [jobs EXCEPT ![i] =
              IF r.threw THEN Failing(@, r.error)
              ELSE [@ EXCEPT !.pc = "validating", !.extracted = r.value]]
    /\ UNCHANGED <<event, hpc, response>>
    /\ UNCHANGED <<valVars, decVars, simVars>>

\* smartRules && smartRules.length > 0
HasRules(smartRules) ==
    "data" \in DOMAIN smartRules /\ Len(smartRules.data) > 0

\* Step 3: validateDocumentFields settles and its results are applied
Validate(i) ==
    /\ hpc = "waiting"
    /\ jobs[i].pc = "validating"
    /\ LET clientId == clientIdOf(jobs[i].jobData)
           r == validateDocumentFields(jobs[i].extracted.fields, clientId,
                                       jobs[i].env.erp)
       IN  jobs' = [jobs EXCEPT ![i] =
              IF r.threw
              THEN [Failing(@, r.error) EXCEPT !.fetches = r.fetches]
              ELSE [@ EXCEPT
                      !.pc = IF HasRules(jobs[i].smartRules)
                             THEN "rules" ELSE "saving",
                      !.validated = TRUE,
                      !.fetches = r.fetches,
                      !.finalFields =
                          applyValidation(jobs[i].extracted.fields,
                                          r.results)]]
    /\ UNCHANGED <<event, hpc, response>>
    /\ UNCHANGED <<valVars, decVars, simVars>>

\* applySmartRulesWithGPT4 after the completion call: the parsed fields of
\* the completion ({} when it has no content), or the validated fields when
\* the call failed
applySmartRulesWithGPT4(fields, completion) ==
    IF completion = "throw" THEN fields
    ELSE IF completion = "empty" THEN << >>
    ELSE fields

\* Step 4: applySmartRulesWithGPT4 settles; then the updates of the usage
\* counts settle, whose errors are not looked at
SmartRules(i) ==
    /\ hpc = "waiting"
    /\ jobs[i].pc = "rules"
    /\ jobs' = [jobs EXCEPT ![i] =
          [@ EXCEPT !.pc = "saving",
                    !.finalFields =
                        applySmartRulesWithGPT4(@, jobs[i].env.rulesCall)]]
    /\ UNCHANGED <<event, hpc, response>>
    /\ UNCHANGED <<valVars, decVars, simVars>>

\* Step 5: the update to status 'completed' settles; a returned error is
\* thrown
Save(i) ==
    /\ hpc = "waiting"
    /\ jobs[i].pc = "saving"
    /\ LET w == Append(jobs[i].writes,
                       Write("completed", Null,
                             determineStatus(jobs[i].finalFields),
                             jobs[i].env.save))
       IN  jobs' = [jobs EXCEPT ![i] =
              IF jobs[i].env.save = "error"
              THEN [Failing(@, StoreError) EXCEPT !.writes = w]
              ELSE [@ EXCEPT
                      !.pc = "settled",
                      !.writes = w,
                      !.settled =
                          [status |-> "fulfilled",
                           value |-> [success |-> TRUE,
                                      documentId |->
                                          jobs[i].jobData.documentId]]]]
    /\ UNCHANGED <<event, hpc, response>>
    /\ UNCHANGED <<valVars, decVars, simVars>>

\* the update to status 'failed' settles (its error is not looked at), the
\* error is thrown again and the callback of handler catches it
StatusFailed(i) ==
    /\ hpc = "waiting"
    /\ jobs[i].pc = "failing"
    /\ jobs' = [jobs EXCEPT ![i] =
          [Caught(@, jobs[i].error, i - 1) EXCEPT
              !.writes = Append(@, Write("failed", MessageOf(jobs[i].error),
                                         Null, jobs[i].env.failed))]]
    /\ UNCHANGED <<event, hpc, response>>
    /\ UNCHANGED <<valVars, decVars, simVars>>

\* every promise is settled: handler counts them and returns
HandlerReturn ==
    /\ hpc = "waiting"
    /\ \A i \in DOMAIN jobs : jobs[i].pc = "settled"
    /\ hpc' = "returned"
    /\ response' = [statusCode |-> 200,
                    body |-> BatchBody([i \in DOMAIN jobs |->
                                           jobs[i].settled])]
    /\ UNCHANGED <<event, jobs>>
    /\ UNCHANGED <<valVars, decVars, simVars>>

(***************************************************************************)
(* Batches and collaborators of the handler model                          *)
(***************************************************************************)
Year2024 == <<"2","0","2","4">>
Amount10 == <<"1","0",".","0","0">>
NetText == <<"N","e","t">>
DueText == <<"D","u","e">>

\* results of the extraction completion: one with a list-match field, one
\* with arrays and a null and no list-match field
InvoiceFields ==
    [invoicing_party |-> JsonString(AcmeFoods),
     document_date |-> JsonString(Year2024),
     invoice_gross_amount |-> JsonString(Amount10)]

OtherFields ==
    [document_header_text |-> JsonArray(<<NetText, DueText>>),
     tax_rates |-> JsonArray(<<Amount10, Amount10>>),
     document_date |-> JsonNull]

\* rows of erp_master_data per client
ErpBothClients ==
    (DefaultClientId :> <<MasterDataItem(<<"V","4","0","0">>, AcmeGoadsCo)>>)
    @@ (ClientA :> <<MasterDataItem(<<"V","1","0","0">>, ACME_FOODS)>>)

ErpOnlyClientA ==
    (DefaultClientId :> << >>)
    @@ (ClientA :> <<MasterDataItem(<<"V","1","0","0">>, ACME_FOODS)>>)

ExtractionRule == [id |-> "r1", category |-> "assignment", usage_count |-> 0]

\* every collaborator call of one processDocument run succeeds
HealthyEnv ==
    [processing |-> "ok",
     rules |-> [kind |-> "data", data |-> << >>],
     textract |-> [kind |-> "data", blocks |-> DocForm],
     gpt |-> [kind |-> "json", result |-> InvoiceFields],
     rulesCall |-> "echo",
     save |-> "ok",
     failed |-> "ok",
     erp |-> ErpBothClients]

QuietEnv == [HealthyEnv EXCEPT !.erp = ErpOnlyClientA]

RulesEnv == [QuietEnv EXCEPT !.rules = [kind |-> "data",
                                        data |-> <<ExtractionRule>>]]

\* the outcomes of the collaborator calls of one run: all succeed, or one
\* call fails, or the store fails for the save and for the update to 'failed'
Environments ==
    { HealthyEnv,
      QuietEnv,
      RulesEnv,
      [RulesEnv EXCEPT !.rulesCall = "throw"],
      [RulesEnv EXCEPT !.rulesCall = "empty"],
      [QuietEnv EXCEPT !.rules = [kind |-> "error"]],
      [QuietEnv EXCEPT !.processing = "error"],
      [QuietEnv EXCEPT !.textract = [kind |-> "throw"]],
      [QuietEnv EXCEPT !.textract = [kind |-> "throw"], !.failed = "error"],
      [QuietEnv EXCEPT !.gpt = [kind |-> "throw"]],
      [QuietEnv EXCEPT !.gpt = [kind |-> "empty"]],
      [HealthyEnv EXCEPT !.gpt = [kind |-> "text"]],
      [HealthyEnv EXCEPT !.gpt = [kind |-> "json", result |-> OtherFields]],
      [QuietEnv EXCEPT !.save = "error"],
      [QuietEnv EXCEPT !.save = "error", !.failed = "error"] }

\* the parsed body of a job message
JobMessage(filename) ==
    [documentId |-> Doc1, userId |-> User1, fileUrl |-> FileUrl,
     filename |-> filename]

JobMessageOfClient(filename, clientId) ==
    [documentId |-> Doc1, userId |-> User1, fileUrl |-> FileUrl,
     filename |-> filename, clientId |-> clientId]

Record(body) == [body |-> body]

ValidRecords ==
    { Record([kind |-> "json", data |-> JobMessage(InvoicePDF)]),
      Record([kind |-> "json",
              data |-> JobMessageOfClient(InvoicePDF, ClientA)]) }

InvalidRecords ==
    { Record([kind |-> "missing"]),
      Record([kind |-> "text"]),
      Record([kind |-> "json", data |-> JsonNull]),
      Record([kind |-> "json", data |-> [number |-> 5]]),
      Record([kind |-> "json", data |-> JobMessage(NotesTxt)]),
      Record([kind |-> "json",
              data |-> [JobMessage(InvoicePDF) EXCEPT !.documentId = <<" ">>]]) }

\* a record of the event with the collaborators its run meets
JobConfigs ==
    {[record |-> r, env |-> e] : r \in ValidRecords, e \in Environments}
    \cup {[record |-> r, env |-> HealthyEnv] : r \in InvalidRecords}

ProcInit ==
    /\ \E n \in 0..MaxRecords :
          \E cfg \in [1..n -> JobConfigs] :
              /\ event = [i \in 1..n |-> cfg[i].record]
              /\ jobs = [i \in 1..n |-> PendingJob(cfg[i].env)]
    /\ hpc = "idle"
    /\ response = NoRecord
    /\ ValIdle
    /\ DecIdle
    /\ SimIdle

ProcNext ==
    \/ HandlerInvoke
    \/ HandlerReturn
    \/ \E i \in DOMAIN jobs :
          \/ StatusProcessing(i) \/ Lookups(i) \/ Textract(i)
          \/ ExtractFields(i) \/ Validate(i) \/ SmartRules(i)
          \/ Save(i) \/ StatusFailed(i)

ProcSpec == ProcInit /\ [][ProcNext]_vars

(***************************************************************************)
(* One similarity score: simpleFuzzyMatch lower-cases the query and the    *)
(* choice, calculateSimilarity scores them, validateField rounds the score *)
(***************************************************************************)
Inc == <<"I","n","c">>
CoDot == <<"C","o",".">>
Acme == <<"A","c","m","e">>
ACME_FOODS_INC == <<"A","C","M","E"," ","F","O","O","D","S"," ","I","N","C">>
AcmeFoodsIntl ==
    <<"A","c","m","e",","," ","F","o","o","d","s"," ","I","n","t","l">>

\* the choices a query is scored against
SimStrings ==
    { << >>, Inc, CoDot, Acme, AcmeFoods, ACME_FOODS_INC, AcmeGoadsCo,
      AcmeFoodsIntl, JacksFoods, JacksFoodsInc }

\* the queries
SimQueries == { << >>, Inc, CoDot, Acme, AcmeFoods, JacksFoods }

\* query.toLowerCase(), choice.toLowerCase()
Lower ==
    /\ sim.pc = "args"
    /\ sim' = [sim EXCEPT !.pc = "lowered",
                          !.s1 = toLowerCase(sim.query),
                          !.s2 = toLowerCase(sim.choice)]
    /\ UNCHANGED <<valVars, decVars, procVars>>

\* this.calculateSimilarity(s1, s2)
Score ==
    /\ sim.pc = "lowered"
    /\ sim' = [sim EXCEPT !.pc = "scored",
                          !.score = calculateSimilarity(sim.s1, sim.s2)]
    /\ UNCHANGED <<valVars, decVars, procVars>>

\* Math.round(score) of the alternatives
Round ==
    /\ sim.pc = "scored"
    /\ sim' = [sim EXCEPT !.pc = "rounded",
                          !.rounded = RoundScore(sim.score)]
    /\ UNCHANGED <<valVars, decVars, procVars>>

SimInit ==
    /\ sim \in {[pc |-> "args", query |-> q, choice |-> c, s1 |-> << >>,
                 s2 |-> << >>, score |-> NoRecord, rounded |-> 0] :
                   q \in SimQueries, c \in SimStrings}
    /\ ValIdle
    /\ DecIdle
    /\ ProcIdle

SimNext == Lower \/ Score \/ Round

ScoreSpec == SimInit /\ [][SimNext]_vars

(***************************************************************************)
(* Properties of validateField                                             *)
(***************************************************************************)
\* the call of field f went past the fetch with a list from the provider
Fetched(f) ==
    /\ call[f].pc \in {"asking", "returned"}
    /\ ~Falsy(call[f].value)
    /\ provider[dataTypeMap(f)].kind # "throw"

MasterList(f) == fetchMasterData(provider[dataTypeMap(f)])

OracleCalledFor(f) ==
    \E i \in 1..Len(oracleCalls) : oracleCalls[i].field = f

EqualsIgnoringCase(item, v) ==
    \/ toLowerCase(item.code) = toLowerCase(v)
    \/ toLowerCase(item.name) = toLowerCase(v)

HasExactItem(f) ==
    \E i \in 1..Len(MasterList(f)) :
        EqualsIgnoringCase(MasterList(f)[i], call[f].value)

\* the call went through the fuzzy pass: a list, and no exact match in it
FuzzyPass(f) == Fetched(f) /\ MasterList(f) # <<>> /\ ~HasExactItem(f)

\* the top-ranked candidate of the call of field f, alternatives[0], and its
\* rounded score
TopCandidate(f) == call[f].alternatives[1]
TopScore(f) == TopCandidate(f).score

\* C1: with a non-empty value and a list holding an item whose code or name
\* equals the value ignoring case, the call returns status exact, confidence
\* 100, no alternatives and the code and name of such an item, and the
\* oracle is never called, whatever the other items score.
C1_ExactMatchOutranksFuzzy ==
    \A f \in ModelFields :
        (Fetched(f) /\ HasExactItem(f)) =>
            /\ call[f].pc = "returned"
            /\ ~OracleCalledFor(f)
            /\ call[f].result.status = "exact"
            /\ call[f].result.confidence = 100
            /\ call[f].result.alternatives = <<>>
            /\ \E i \in 1..Len(MasterList(f)) :
                  /\ EqualsIgnoringCase(MasterList(f)[i], call[f].value)
                  /\ call[f].result.matched_code = MasterList(f)[i].code
                  /\ call[f].result.matched_name = MasterList(f)[i].name

\* an exact result although an item that is not an exact match is listed
\* first and scores above 85
C1_Witness ==
    \E f \in ModelFields :
        /\ Fetched(f) /\ HasExactItem(f)
        /\ call[f].result.status = "exact"
        /\ ~EqualsIgnoringCase(MasterList(f)[1], call[f].value)
        /\ RoundScore(calculateSimilarity(toLowerCase(call[f].value),
                           toLowerCase(MasterList(f)[1].name))) > 85

\* the result is the top-ranked candidate, accepted without the oracle
AutoAccepted(f) ==
    LET top == TopCandidate(f)
    IN  /\ call[f].pc = "returned"
        /\ call[f].result.status \in {"fuzzy_high", "fuzzy_medium"}
        /\ call[f].result.matched_code = top.code
        /\ call[f].result.matched_name = top.name
        /\ call[f].result.confidence = top.score
        /\ ~OracleCalledFor(f)

\* C2: without an exact match the top-ranked candidate is auto-accepted
\* exactly when its score is strictly greater than 85; a top score of 85 is
\* not accepted and goes to the oracle.
C2_AutoAcceptAbove85 ==
    \A f \in ModelFields :
        FuzzyPass(f) =>
            /\ AutoAccepted(f) <=> TopScore(f) > 85
            /\ TopScore(f) = 85 => OracleCalledFor(f)

\* a call whose top score is exactly 85 came back from the oracle
C2_Witness ==
    \E f \in ModelFields :
        /\ FuzzyPass(f) /\ TopScore(f) = 85
        /\ call[f].pc = "returned"
        /\ OracleCalledFor(f)

\* C3 as stated: an auto-accepted top score of 90 is fuzzy_high and one of
\* 89 is fuzzy_medium.
C3_Score90IsHigh ==
    \A f \in ModelFields :
        (FuzzyPass(f) /\ AutoAccepted(f)) =>
            /\ TopScore(f) = 90 => call[f].result.status = "fuzzy_high"
            /\ TopScore(f) = 89 => call[f].result.status = "fuzzy_medium"

\* C3 amended: an auto-accepted top score of 90 is fuzzy_medium, as is one
\* of 89; fuzzy_high needs a score strictly greater than 90.
C3_Score90IsMedium ==
    \A f \in ModelFields :
        (FuzzyPass(f) /\ AutoAccepted(f)) =>
            /\ TopScore(f) = 90 => call[f].result.status = "fuzzy_medium"
            /\ TopScore(f) = 89 => call[f].result.status = "fuzzy_medium"
            /\ TopScore(f) > 90 => call[f].result.status = "fuzzy_high"

\* an auto-accepted result whose top score is exactly 90
C3_Witness ==
    \E f \in ModelFields :
        FuzzyPass(f) /\ AutoAccepted(f) /\ TopScore(f) = 90

\* C4 as stated: no exception leaves validateField, and when the provider
\* or the oracle fails the call returns status no_match.
C4_CollaboratorFailureGivesNoMatch ==
    \A f \in ModelFields :
        /\ call[f].pc # "thrown"
        /\ (/\ call[f].pc = "returned"
            /\ ~Falsy(call[f].value)
            /\ \/ provider[dataTypeMap(f)].kind = "error"
               \/ OracleCalledFor(f) /\ oracle[f].kind = "throw")
           => call[f].result.status = "no_match"

\* the oracle of the call selected a candidate
OracleSelected(f) ==
    /\ OracleCalledFor(f)
    /\ call[f].pc = "returned"
    /\ selectBestMatchWithGPT(slice(call[f].alternatives, 0, 10), oracle[f])
           # NoRecord

\* C6 as stated: matched_code is non-null exactly when the status is exact,
\* fuzzy_high or fuzzy_medium, or the oracle selected a candidate with
\* confidence above 75.
C6_MatchedCodeIffAccepted ==
    \A f \in ModelFields :
        call[f].pc = "returned" =>
            (call[f].result.matched_code # Null <=>
                \/ call[f].result.status \in {"exact", "fuzzy_high", "fuzzy_medium"}
                \/ OracleSelected(f) /\ call[f].result.confidence > 75)

\* C6 amended: matched_code is non-null exactly when the status is exact,
\* fuzzy_high, fuzzy_medium or fuzzy_low, or the status is no_match and the
\* similarity list is non-empty; under no_match the code is the one of the
\* top-ranked similarity candidate, never one chosen by the oracle.
C6_MatchedCodeIffCandidates ==
    \A f \in ModelFields :
        call[f].pc = "returned" =>
            /\ call[f].result.matched_code # Null <=>
                  \/ call[f].result.status \in
                        {"exact", "fuzzy_high", "fuzzy_medium", "fuzzy_low"}
                  \/ call[f].result.status = "no_match" /\ FuzzyPass(f)
            /\ (call[f].result.status = "no_match" /\ FuzzyPass(f)) =>
                  call[f].result.matched_code = TopCandidate(f).code

\* a no_match result that carries the code of the best candidate after the
\* oracle declined
C6_Witness ==
    \E f \in ModelFields :
        /\ call[f].pc = "returned"
        /\ call[f].result.status = "no_match"
        /\ call[f].result.matched_code # Null
        /\ OracleCalledFor(f)

\* C7 as stated: alternatives has at most 5 entries and none of them has
\* the code reported as matched_code.
C7_AlternativesExcludeWinner ==
    \A f \in ModelFields :
        call[f].pc = "returned" =>
            /\ Len(call[f].result.alternatives) <= 5
            /\ \A i \in 1..Len(call[f].result.alternatives) :
                  call[f].result.alternatives[i].code
                      # call[f].result.matched_code

\* the provider of field f returned, and returned no row
EmptyMasterList(f) ==
    provider[dataTypeMap(f)].kind # "throw" /\ MasterList(f) = <<>>

\* C15: when the provider returns an empty list, the call returns status
\* no_match with confidence 0, null code and name and no alternatives,
\* whatever the extracted value, and the oracle is not called.
C15_EmptyListGivesNoMatch ==
    \A f \in ModelFields :
        (call[f].pc \in {"asking", "returned"} /\ EmptyMasterList(f)) =>
            /\ call[f].pc = "returned"
            /\ call[f].result.status = "no_match"
            /\ call[f].result.confidence = 0
            /\ call[f].result.matched_code = Null
            /\ call[f].result.matched_name = Null
            /\ call[f].result.alternatives = <<>>
            /\ ~OracleCalledFor(f)

\* the call for "Acme Foods" returned after the query gave no row
C15_Witness ==
    \E f \in ModelFields :
        /\ call[f].pc = "returned"
        /\ call[f].value = AcmeFoods
        /\ provider[dataTypeMap(f)] = [kind |-> "data", data |-> <<>>]
        /\ call[f].result.status = "no_match"

JackItem == MasterDataItem(JACK0001, JacksFoodsInc)

JackScenario(f) ==
    /\ Fetched(f)
    /\ call[f].value = JacksFoods
    /\ \E i \in 1..Len(MasterList(f)) : MasterList(f)[i] = JackItem

\* C16: for the value "Jacks Foods" and a list that holds JACK0001
\* "Jack's Foods Inc" among other names, that item scores above 85 and the
\* call returns matched_code JACK0001 with status fuzzy_high or
\* fuzzy_medium, without a call of the oracle.
C16_JacksFoodsIsAccepted ==
    \A f \in ModelFields :
        JackScenario(f) =>
            /\ TopCandidate(f).code = JACK0001
            /\ TopScore(f) > 85
            /\ call[f].pc = "returned"
            /\ call[f].result.matched_code = JACK0001
            /\ call[f].result.confidence = TopScore(f)
            /\ call[f].result.status \in {"fuzzy_high", "fuzzy_medium"}
            /\ ~OracleCalledFor(f)

\* the item is listed behind another vendor and is matched
C16_Witness ==
    \E f \in ModelFields :
        /\ JackScenario(f)
        /\ Len(MasterList(f)) >= 2
        /\ MasterList(f)[1].name = ACME_FOODS
        /\ call[f].result.matched_code = JACK0001
        /\ call[f].result.confidence = 94

\* the calls of the oracle made for field f
OracleCallsFor(f) == {i \in 1..Len(oracleCalls) : oracleCalls[i].field = f}

\* the fetch of the call of field f has settled
FetchSettled(f) == call[f].pc \in {"asking", "returned", "thrown"}

\* C17: the oracle is called at most once per call and never before the
\* fetch settled; it is called exactly when the value is non-empty, the
\* list is non-empty, no item matches exactly and the top score s has
\* 60 < s <= 85; it is passed the first min(10, n) ranked candidates in
\* rank order.
C17_OracleCalledOnceForMediumScores ==
    \A f \in ModelFields :
        /\ Cardinality(OracleCallsFor(f)) <= 1
        /\ OracleCalledFor(f) => FetchSettled(f)
        /\ FetchSettled(f) =>
            (OracleCalledFor(f) <=>
                (FuzzyPass(f) /\ 60 < TopScore(f) /\ TopScore(f) <= 85))
        /\ \A i \in OracleCallsFor(f) :
            LET ranked == call[f].alternatives
                passed == oracleCalls[i].candidates
            IN  /\ Len(passed) = Min(10, Len(ranked))
                /\ \A k \in 1..Len(passed) : passed[k] = ranked[k]
                /\ \A k \in 1..(Len(ranked) - 1) :
                        ranked[k].score >= ranked[k + 1].score

\* the oracle was asked about a list of more than ten candidates
C17_Witness ==
    \E f \in ModelFields :
        /\ call[f].pc = "returned"
        /\ Len(call[f].alternatives) > 10
        /\ \E i \in OracleCallsFor(f) :
            /\ Len(oracleCalls[i].candidates) = 10
            /\ oracleCalls[i].candidates[1].score = 73
            /\ oracleCalls[i].candidates[10].score = 64

\* the candidate that the reply of the oracle points at
SelectedCandidate(f) ==
    slice(call[f].alternatives, 0, 10)[oracle[f].selected_index]

\* C18: when the oracle returns a selection with confidence c, 0 included,
\* the call returns the code and name of the selection, confidence c and
\* status fuzzy_medium if c > 75, fuzzy_low otherwise.
C18_OracleConfidenceIsReported ==
    \A f \in ModelFields :
        (OracleSelected(f) /\ "confidence" \in DOMAIN oracle[f]) =>
            /\ call[f].result.matched_code = SelectedCandidate(f).code
            /\ call[f].result.matched_name = SelectedCandidate(f).name
            /\ call[f].result.confidence = oracle[f].confidence
            /\ call[f].result.status =
                  IF oracle[f].confidence > 75 THEN "fuzzy_medium"
                  ELSE "fuzzy_low"

\* the oracle was called and gave no selection, or failed
OracleDeclined(f) ==
    /\ OracleCalledFor(f)
    /\ call[f].pc = "returned"
    /\ ~OracleSelected(f)

\* C19: without an exact match, when the top score is at most 60 or the
\* oracle was called and gave no selection, the call returns no_match with
\* the code, name and score of the top-ranked candidate and the first five
\* ranked candidates as alternatives.
C19_NoMatchReportsTopCandidate ==
    \A f \in ModelFields :
        (/\ FuzzyPass(f)
         /\ call[f].pc = "returned"
         /\ TopScore(f) <= 60 \/ OracleDeclined(f)) =>
            LET ranked == call[f].alternatives
                r == call[f].result
            IN  /\ r.status = "no_match"
                /\ r.matched_code = ranked[1].code
                /\ r.matched_name = ranked[1].name
                /\ r.confidence = ranked[1].score
                /\ Len(r.alternatives) = Min(5, Len(ranked))
                /\ \A k \in 1..Len(r.alternatives) :
                        r.alternatives[k] = ranked[k]

\* the oracle failed on a list of more than five candidates
C19_Witness ==
    \E f \in ModelFields :
        /\ FuzzyPass(f)
        /\ OracleDeclined(f)
        /\ oracle[f].kind = "throw"
        /\ Len(call[f].alternatives) > 5
        /\ Len(call[f].result.alternatives) = 5
        /\ call[f].result.confidence = 73

\* processDocument replaced the value of field f by a matched code
Replaced(f) ==
    /\ vpc = "applied"
    /\ f \in DOMAIN extractedFields
    /\ validatedFields[f] # extractedFields[f]

Decoded == dpc = "decoded"

InputBlockMap == BuildMap(blocks, "blockMap", <<>>)
KeyIndexes == {i \in 1..Len(blocks) : IsKeyBlock(blocks[i])}
Entries(seq) == {seq[i] : i \in 1..Len(seq)}

\* every string of the decoded document
DecodedStrings ==
    {kv.key : kv \in out.keyValues} \cup {kv.value : kv \in out.keyValues}
    \cup Entries(out.layout.titles) \cup Entries(out.layout.headers)
    \cup Entries(out.layout.sections) \cup Entries(out.layout.lists)
    \cup UNION {{c.text : c \in Entries(t.rawCells)} : t \in Entries(out.tables)}
    \cup UNION {UNION {{row.at[j] : j \in DOMAIN row.at} : row \in Entries(t.rows)} :
                    t \in Entries(out.tables)}
    \cup {out.text}

InputTexts == {blocks[i].Text : i \in {k \in 1..Len(blocks) : "Text" \in DOMAIN blocks[k]}}

\* C5: the decode of a malformed block graph completes, and a text that is
\* absent in the input shows in the decoded document only as an empty
\* string or an omitted entry: no decoded string holds the word
\* "undefined" when no Text of the input holds it.
C5_AbsentTextIsEmptyOrOmitted ==
    Decoded =>
        ((\A t \in InputTexts : ~includes(t, UndefinedText))
            => \A s \in DecodedStrings : ~includes(s, UndefinedText))

\* the VALUE ids of key block i that are the ids of value blocks, in edge order
ResolvableValueIds(i) ==
    SelectSeq(RelatedIds(blocks[i], "VALUE"),
              LAMBDA id : \E j \in 1..Len(blocks) :
                            blocks[j].Id = id /\ IsValueBlock(blocks[j]))

BlockById(id) == blocks[CHOOSE j \in 1..Len(blocks) : blocks[j].Id = id]
KeyTextOf(i) == getText(blocks[i], InputBlockMap)
ValueTextOf(id) == getText(BlockById(id), InputBlockMap)

UniqueKeyText(i) == \A j \in KeyIndexes \ {i} : KeyTextOf(j) # KeyTextOf(i)

\* the key-value pair of key block i is the one of value block id
PairUses(i, id) ==
    IF ValueTextOf(id) = <<>>
    THEN \A kv \in out.keyValues : kv.key # KeyTextOf(i)
    ELSE [key |-> KeyTextOf(i), value |-> ValueTextOf(id)] \in out.keyValues

SeveralValues(i) ==
    /\ Len(ResolvableValueIds(i)) >= 2
    /\ KeyTextOf(i) # <<>>
    /\ UniqueKeyText(i)

\* C10 as stated: a key block with several VALUE ids of existing value
\* blocks uses the first of them in edge order.
C10_FirstFoundWins ==
    Decoded =>
        \A i \in KeyIndexes :
            SeveralValues(i) => PairUses(i, ResolvableValueIds(i)[1])

\* C10: a key block with several VALUE ids of existing value blocks uses
\* the last of them in edge order for its key-value pair.
C10_LastFoundWins ==
    Decoded =>
        \A i \in KeyIndexes :
            SeveralValues(i) =>
                PairUses(i, ResolvableValueIds(i)[Len(ResolvableValueIds(i))])

C10_Witness ==
    /\ Decoded
    /\ \E i \in KeyIndexes :
        /\ SeveralValues(i)
        /\ ValueTextOf(ResolvableValueIds(i)[1]) = Ten
        /\ ValueTextOf(ResolvableValueIds(i)[2]) = Twenty
        /\ [key |-> KeyTextOf(i), value |-> Twenty] \in out.keyValues

\* the same entries, each as many times, in any order
Count(x, seq) == Cardinality({i \in 1..Len(seq) : seq[i] = x})
SameEntries(s, t) ==
    /\ Len(s) = Len(t)
    /\ \A x \in Entries(s) \cup Entries(t) : Count(x, s) = Count(x, t)

\* the indexes of a set in ascending order
Ascending(idx) ==
    [k \in 1..Cardinality(idx) |->
        CHOOSE i \in idx : Cardinality({j \in idx : j <= i}) = k]

IndexesOfType(type) == {i \in 1..Len(blocks) : blocks[i].BlockType = type}

RECURSIVE JoinLines(_)
JoinLines(lines) ==
    IF lines = <<>> THEN <<>>
    ELSE Head(lines) \o <<"\n">> \o JoinLines(Tail(lines))

TextOrEmpty(b) == IF "Text" \in DOMAIN b THEN b.Text ELSE <<>>

\* the texts of the blocks at the indexes idx, in input order
TextsInInputOrder(idx) ==
    [k \in 1..Cardinality(idx) |-> TextOrEmpty(blocks[Ascending(idx)[k]])]

TableOf(b) ==
    extractTable(b, BuildMap(blocks, "cellMap", <<>>), InputBlockMap)

TablesInInputOrder(idx) ==
    [k \in 1..Cardinality(idx) |-> TableOf(blocks[Ascending(idx)[k]])]

\* the lines of the full text are the line blocks in input order
LinesTrackInput ==
    out.text = JoinLines(TextsInInputOrder(
                   {i \in IndexesOfType("LINE") : TextOrEmpty(blocks[i]) # <<>>}))

\* the layout sequences and the table list are in input order
EntriesTrackInput ==
    /\ out.layout.titles = TextsInInputOrder(IndexesOfType("LAYOUT_TITLE"))
    /\ out.layout.headers = TextsInInputOrder(IndexesOfType("LAYOUT_HEADER"))
    /\ out.layout.sections =
            TextsInInputOrder(IndexesOfType("LAYOUT_SECTION_HEADER"))
    /\ out.layout.lists = TextsInInputOrder(IndexesOfType("LAYOUT_LIST"))
    /\ out.tables =
            TablesInInputOrder({i \in IndexesOfType("TABLE") :
                                    Len(TableOf(blocks[i]).rows) > 0})

DistinctKeyTexts ==
    \A i, j \in KeyIndexes : i # j => KeyTextOf(i) # KeyTextOf(j)

Redecoded == dpc = "decoded" /\ dpc' = "decoded"

\* C9 as stated: decoding a permutation of the blocks gives the same
\* keyValues, the same tables and the same four layout sequences; the
\* lines of the full text follow the input order.
C9_OnlyLineOrderChanges ==
    /\ [](Decoded => LinesTrackInput)
    /\ [][Redecoded =>
            /\ out'.keyValues = out.keyValues
            /\ SameEntries(out'.tables, out.tables)
            /\ out'.layout = out.layout]_vars

\* C9: decoding a permutation of the blocks gives the same entries in each
\* of the four layout sequences and in the table list, and the same
\* keyValues when no two key blocks have the same key text; the order of
\* the layout entries, of the tables and of the lines of the full text is
\* the input order of their blocks.
C9_EntriesKeptOrderFollowsInput ==
    /\ [](Decoded => LinesTrackInput /\ EntriesTrackInput)
    /\ [][Redecoded =>
            /\ SameEntries(out'.layout.titles, out.layout.titles)
            /\ SameEntries(out'.layout.headers, out.layout.headers)
            /\ SameEntries(out'.layout.sections, out.layout.sections)
            /\ SameEntries(out'.layout.lists, out.layout.lists)
            /\ SameEntries(out'.tables, out.tables)
            /\ (DistinctKeyTexts => out'.keyValues = out.keyValues)]_vars

\* a reordered response is decoded: titles and lines in the reverse of the
\* order the response had at first
C9_Witness ==
    /\ Decoded
    /\ out.layout.titles = << <<"u">>, <<"t">> >>
    /\ out.text = <<"b", "\n", "a", "\n">>
    /\ out.layout.sections = << <<"s">> >>

\* key block i has a VALUE id of a value block and resolves to entry kv
Produces(i, kv) ==
    /\ ResolvableValueIds(i) # <<>>
    /\ KeyTextOf(i) = kv.key
    /\ \E k \in 1..Len(ResolvableValueIds(i)) :
            ValueTextOf(ResolvableValueIds(i)[k]) = kv.value

\* C11: every entry of keyValues has non-empty key and value text and is
\* produced by a key block with a VALUE id of an existing value block; a
\* key block whose VALUE ids are missing or all dangling produces none.
C11_EntriesNeedValueBlockAndTexts ==
    Decoded =>
        \A kv \in out.keyValues :
            /\ kv.key # <<>>
            /\ kv.value # <<>>
            /\ \E i \in KeyIndexes : Produces(i, kv)

\* a key block with key text and without VALUE relationship has no entry,
\* next to a key block that has one
C11_Witness ==
    /\ Decoded
    /\ out.keyValues # {}
    /\ \E i \in KeyIndexes :
        /\ KeyTextOf(i) # <<>>
        /\ RelatedIds(blocks[i], "VALUE") = <<>>
        /\ \A kv \in out.keyValues : kv.key # KeyTextOf(i)

\* the value text that key block i writes, and whether it writes
WrittenValue(i) ==
    IF ResolvableValueIds(i) = <<>> THEN <<>>
    ELSE ValueTextOf(ResolvableValueIds(i)[Len(ResolvableValueIds(i))])

Writes(i) == KeyTextOf(i) # <<>> /\ WrittenValue(i) # <<>>

LastWriter(i) ==
    /\ Writes(i)
    /\ \A j \in KeyIndexes : j > i /\ Writes(j) => KeyTextOf(j) # KeyTextOf(i)

\* C12: keyValues holds exactly one entry for a key text, and its value is
\* the one written by the last key block, in input order, that writes this
\* key text.
C12_LastWriterWins ==
    Decoded =>
        \A i \in KeyIndexes :
            LastWriter(i) =>
                {kv \in out.keyValues : kv.key = KeyTextOf(i)}
                    = {[key |-> KeyTextOf(i), value |-> WrittenValue(i)]}

\* two key blocks write the same key text, the later one writes "10"
C12_Witness ==
    /\ Decoded
    /\ \E i, j \in KeyIndexes :
        /\ i < j
        /\ Writes(i)
        /\ Writes(j)
        /\ KeyTextOf(i) = KeyTextOf(j)
        /\ WrittenValue(i) = Total
        /\ WrittenValue(j) = Ten
        /\ out.keyValues = {[key |-> KeyTextOf(j), value |-> Ten]}

TableIndexes == IndexesOfType("TABLE")

\* the row indexes that the cells of a table allocate
AllocatedRows(t) == {t.rawCells[k].rowIndex : k \in 1..Len(t.rawCells)}

\* C13: a table block is in the table list exactly when its table has a
\* surviving row, and every row that a cell allocated survives (also a row
\* of empty strings): only rows that no cell allocated are filtered out.
C13_AllocatedRowsSurvive ==
    Decoded =>
        /\ \A i \in TableIndexes :
            (\E k \in 1..Len(out.tables) : out.tables[k] = TableOf(blocks[i]))
                <=> Len(TableOf(blocks[i]).rows) > 0
        /\ \A i \in TableIndexes :
            Len(TableOf(blocks[i]).rows)
                = Cardinality(AllocatedRows(TableOf(blocks[i])))

\* C14: in every row of every output table, every column position below
\* the length of the row holds a string (the empty string where no cell
\* wrote), never a hole.
C14_NoHolesInRows ==
    Decoded =>
        \A t \in Entries(out.tables) :
            \A row \in Entries(t.rows) :
                \A j \in 0..(row.length - 1) : ArrayHas(row, j)

\* the cell blocks that table block i refers to and the response holds
CellIdsOf(i) ==
    {id \in Entries(RelatedIds(blocks[i], "CHILD")) :
        MapHas(BuildMap(blocks, "cellMap", <<>>), id)}

\* the 0-based position of a cell when a missing index counts as 1
RowOf(cell) == NumGet(cell, "RowIndex", 1) - 1
ColumnOf(cell) == NumGet(cell, "ColumnIndex", 1) - 1

\* the rows array of the table of block i after its cells were placed
PlacedRows(i) == PlaceCells(TableOf(blocks[i]).rawCells, EmptyArray)

\* C26: the text of a cell with 1-based indices (r, c) is at
\* rows[r - 1][c - 1] of its table, a missing row or column index counting
\* as 1 (checked for the cells that no other cell of the table shares the
\* position with).
C26_CellsPlacedByIndex ==
    Decoded =>
        \A i \in TableIndexes :
            \A id \in CellIdsOf(i) :
                LET cell == BlockById(id)
                    rows == PlacedRows(i)
                IN  (\A other \in CellIdsOf(i) \ {id} :
                        \/ RowOf(BlockById(other)) # RowOf(cell)
                        \/ ColumnOf(BlockById(other)) # ColumnOf(cell))
                    => /\ ArrayHas(rows, RowOf(cell))
                       /\ ArrayHas(rows.at[RowOf(cell)], ColumnOf(cell))
                       /\ rows.at[RowOf(cell)].at[ColumnOf(cell)]
                              = getText(cell, InputBlockMap)

(***************************************************************************)
(* Properties of handler and processDocument                               *)
(***************************************************************************)
\* the record of callback i was accepted and processDocument was called
Accepted(i) == jobs[i].jobData # NoRecord

\* the callback of record i is over
Settled(i) == jobs[i].pc = "settled"

\* Textract, the extraction completion and every store call of the run of
\* record i succeed
CollaboratorsSucceed(i) ==
    LET e == jobs[i].env
    IN  /\ e.textract.kind = "data"
        /\ e.gpt.kind = "json"
        /\ e.rules.kind = "data"
        /\ e.processing = "ok" /\ e.save = "ok" /\ e.failed = "ok"

\* the extraction gave a list-match field, and the client whose rows are
\* queried has rows for it
HasListMatchFieldWithData(i) ==
    \E k \in 1..Len(LIST_MATCH_FIELDS) :
        /\ LIST_MATCH_FIELDS[k] \in DOMAIN jobs[i].env.gpt.result
        /\ Len(fetchMasterData(
                 QueryOf(jobs[i].env.erp, clientIdOf(jobs[i].jobData),
                         dataTypeMap(LIST_MATCH_FIELDS[k])))) > 0

\* the statuses that the store applied to the documents row, in order
AppliedStatuses(i) ==
    LET w == SelectSeq(jobs[i].writes, LAMBDA x : x.applied)
    IN  [k \in 1..Len(w) |-> w[k].status]

\* C21: in a run of processDocument where Textract, the extraction call and
\* every store call succeed and the extracted {value, confidence} fields
\* include a list-match field with non-empty master data, the validation
\* step does not raise (the run never enters the catch), and once the run is
\* over the document row has status 'completed'.
C21_ObjectFieldsValidate ==
    \A i \in DOMAIN jobs :
        (Accepted(i) /\ CollaboratorsSucceed(i)
                     /\ HasListMatchFieldWithData(i)) =>
            /\ jobs[i].pc # "failing"
            /\ Settled(i) =>
                  /\ jobs[i].validated
                  /\ AppliedStatuses(i) = <<"processing", "completed">>

\* the terminal statuses among the statuses the store applied
TerminalStatuses(i) ==
    SelectSeq(AppliedStatuses(i), LAMBDA s : s \in {"completed", "failed"})

\* every step of the run of record i succeeded: the lookups, the Textract
\* decode, the extraction, the validation, the smart rules and the save
EveryStepSucceeded(i) ==
    LET e == jobs[i].env
    IN  /\ e.rules.kind = "data"
        /\ e.textract.kind = "data"
        /\ e.gpt.kind \in {"json", "text"}
        /\ jobs[i].validated
        /\ HasRules(jobs[i].smartRules) => e.rulesCall # "throw"
        /\ e.save = "ok"

\* C22: in every run of processDocument the first update of the document
\* row sets status 'processing'; when the run is over exactly one terminal
\* status was written, 'completed' if every step succeeded and otherwise
\* 'failed' with the message of the error, which is thrown again; and
\* 'completed' is never written unless every step succeeded.  (A status is
\* written when the store applied the update.)
C22_OneTerminalStatus ==
    \A i \in DOMAIN jobs :
        Accepted(i) =>
            /\ jobs[i].writes # << >> =>
                  jobs[i].writes[1].status = "processing"
            /\ \A k \in 1..Len(AppliedStatuses(i)) :
                  AppliedStatuses(i)[k] = "completed" =>
                      EveryStepSucceeded(i)
            /\ Settled(i) =>
                  IF EveryStepSucceeded(i)
                  THEN /\ TerminalStatuses(i) = <<"completed">>
                       /\ jobs[i].settled.value.success
                  ELSE /\ TerminalStatuses(i) = <<"failed">>
                       /\ \E k \in 1..Len(jobs[i].writes) :
                             /\ jobs[i].writes[k].status = "failed"
                             /\ jobs[i].writes[k].error_message =
                                    MessageOf(jobs[i].error)
                       /\ ~jobs[i].settled.value.success

\* the records whose callback ended with an error
FailedRecords == {i \in DOMAIN jobs : ~jobs[i].settled.value.success}

\* C23: when handler returns, the body's successful + failed is the number
\* of records, failed is the number of records whose parsing, job-data
\* validation or processDocument call raised an error, successful is the
\* number of the other records, and every record whose job data is valid
\* had its processDocument run to its end whatever the other records did.
C23_BatchCountsFailures ==
    hpc = "returned" =>
        /\ response.body.successful + response.body.failed = Len(event)
        /\ response.body.failed = Cardinality(FailedRecords)
        /\ response.body.successful = Len(event) - Cardinality(FailedRecords)
        /\ \A i \in DOMAIN jobs :
              Accepted(i) => Settled(i) /\ jobs[i].writes # << >>

\* the clientId of the job message of record i, if it carries one
MessageClientId(i) == Field(event[i].body.data, "clientId")

\* C24: every master-data query of the validation step of a job reached
\* through handler is made for the clientId of the job message, and for the
\* default test client only when the message carries no clientId.
C24_FetchesForMessageClient ==
    \A i \in DOMAIN jobs :
        Accepted(i) =>
            \A k \in 1..Len(jobs[i].fetches) :
                jobs[i].fetches[k].clientId =
                    IF Falsy(MessageClientId(i)) THEN DefaultClientId
                    ELSE MessageClientId(i)

\* the extracted value of field f is null, undefined or the empty string
EmptyOrAbsent(f) == extractedFields[f] \in {Null, Absent, << >>}

\* C30: a validateField call for an empty or absent extracted value is
\* never waiting for the Master Data Provider or for the oracle: it has
\* returned, with status no_match, confidence 0, null matched code and
\* name and no alternatives, and no oracle call was made for its field.
C30_EmptyValueReturnsAtOnce ==
    \A f \in DOMAIN extractedFields :
        (EmptyOrAbsent(f) /\ call[f].pc # "idle") =>
            /\ call[f].pc = "returned"
            /\ call[f].result =
                  [field |-> f, extracted_value |-> << >>,
                   matched_code |-> Null, matched_name |-> Null,
                   confidence |-> 0, status |-> "no_match",
                   alternatives |-> << >>]
            /\ \A i \in 1..Len(oracleCalls) : oracleCalls[i].field # f

\* validateField returned for an empty string or an absent value while the
\* provider held rows
C30_Witness ==
    \E f \in DOMAIN extractedFields :
        /\ extractedFields[f] \in {Absent, << >>}
        /\ call[f].pc = "returned"
        /\ provider[dataTypeMap(f)].kind = "data"
        /\ Len(provider[dataTypeMap(f)].data) > 0

(***************************************************************************)
(* Properties of the ranked candidates                                     *)
(***************************************************************************)
\* the position of the row with the given code in the list of field f
PositionOf(f, code) ==
    CHOOSE i \in 1..Len(MasterList(f)) : MasterList(f)[i].code = code

\* C25: the ranked candidates of validateField are at most 20, their scores
\* do not increase along the list, and candidates with equal scores stand
\* in the order of their rows in the master-data list, so that among rows
\* that tie for the top score the first-listed one is the winner.
C25_RankedByScoreThenListOrder ==
    \A f \in ModelFields :
        FuzzyPass(f) =>
            LET alts == call[f].alternatives
            IN  /\ Len(alts) <= 20
                /\ \A k, l \in 1..Len(alts) :
                      k < l =>
                          /\ alts[k].score >= alts[l].score
                          /\ alts[k].score = alts[l].score =>
                                PositionOf(f, alts[k].code)
                                    < PositionOf(f, alts[l].code)

(***************************************************************************)
(* Properties of the similarity score                                      *)
(***************************************************************************)
\* the normalized forms of the two strings that were scored
Norm1 == cleanCompanyName(sim.s1)
Norm2 == cleanCompanyName(sim.s2)

\* C27: the score of two strings whose normalized forms are identical and
\* not empty is 95, and the score of two strings whose normalized forms are
\* both empty is 100.
C27_IdenticalGives95EmptyGives100 ==
    sim.pc \in {"scored", "rounded"} =>
        /\ (Norm1 = Norm2 /\ Norm1 # << >>) => sim.score = Ratio(95, 1)
        /\ (Norm1 = << >> /\ Norm2 = << >>) => sim.score = Ratio(100, 1)

\* the normalized form that the score of a string is computed from
Normalized(s) == cleanCompanyName(toLowerCase(s))

\* one of the two strings contains the other
EitherContains(a, b) == includes(a, b) \/ includes(b, a)

\* round(((max_len - d) / max_len) * 100) for the normalized strings a, b
EditRatio(a, b) ==
    LET max_len == Max(Len(a), Len(b))
    IN  Ratio((max_len - levenshteinDistance(a, b)) * 100, max_len)

\* C28: a candidate whose normalized name differs from the normalized
\* extracted value, neither containing the other, has the score
\* round(((max_len - d) / max_len) * 100), d the edit distance of the two
\* normalized strings and max_len the length of the longer one.
C28_ScoreIsNormalizedEditRatio ==
    \A f \in ModelFields :
        FuzzyPass(f) =>
            \A k \in 1..Len(call[f].alternatives) :
                LET a == Normalized(call[f].value)
                    b == Normalized(call[f].alternatives[k].name)
                IN  (a # b /\ ~EitherContains(a, b)) =>
                        call[f].alternatives[k].score
                            = RoundScore(EditRatio(a, b))

\* the same ratio over the length that calculateSimilarity divides by
LengthRatio ==
    LET maxLen == Max(Len(sim.s1), Len(sim.s2))
    IN  Ratio((maxLen - levenshteinDistance(Norm1, Norm2)) * 100, maxLen)

SameScore(a, b) == a.num * b.den = b.num * a.den

\* C29: the score has the containment bonus exactly when one normalized
\* string contains the other: then it is min(ratio + 15, 95), which is at
\* most 95, and otherwise it is the ratio.
C29_BonusIffNormalizedContainment ==
    (sim.pc \in {"scored", "rounded"} /\ Len(sim.s1) + Len(sim.s2) > 0) =>
        IF EitherContains(Norm1, Norm2)
        THEN /\ SameScore(sim.score,
                     Ratio(Min(LengthRatio.num + 15 * LengthRatio.den,
                               95 * LengthRatio.den), LengthRatio.den))
             /\ ~ScoreLess(Ratio(95, 1), sim.score)
        ELSE SameScore(sim.score, LengthRatio)

====
